---------------------------- MODULE Spec2Model ----------------------------
(***************************************************************************)
(* Model of the loader generation pipeline:                                *)
(*   app/services/loader_generator.py  (budgeting, repair loop, templating)*)
(*   app/services/openai_client.py     (generate_json_object retry loop)   *)
(*   app/utils/files.py                (create_versioned_output_dir)       *)
(*   app/services/text_extract.py      (extract_text)                      *)
(*                                                                         *)
(* A text is modelled by its shape: `lead` removable characters (NUL bytes *)
(* and whitespace) at its start, `core` characters that survive            *)
(* normalisation, and `trail` removable characters at its end.  Slicing    *)
(* text[:limit] keeps the first `limit` characters of that shape.          *)
(* File names, TADIGs and dates are sequences of one-character strings.    *)
(***************************************************************************)
EXTENDS Integers, Sequences, FiniteSets, TLC

(***************************************************************************)
(* Program constants.                                                      *)
(***************************************************************************)
MAX_CHARS_PER_FILE == 60000
MAX_TOTAL_CHARS == 220000
MIN_STANDARD_BUDGET == 5000

(***************************************************************************)
(* Bounds of the model.                                                    *)
(***************************************************************************)
\* longest list of standards handed to _truncate_inputs
MaxStandards == 34
\* number of leading standards whose text is chosen freely; later entries
\* repeat the text of the entry before them
MaxFree == 2

\* concurrent calls of generate_loader_artifacts
NumRuns == 2
\* longest list of standard_paths of a run
MaxRunStandards == 2

VARIABLES
    t_agreement,    \* _truncate_inputs: the agreement_text argument
    t_standards,    \* _truncate_inputs: the standards argument
    t_called,       \* whether _truncate_inputs has returned
    t_out,          \* _truncate_inputs: the returned triple
    run,            \* per call of generate_loader_artifacts: its locals and position
    dirs,           \* directories under OUTPUT_DIR: name -> run that created it (0: older)
    files,          \* files under OUTPUT_DIR: <<directory, file name>> -> content
    api_key,        \* whether OPENAI_API_KEY is set
    CLIENT,         \* openai_client._CLIENT is not None
    s_template,     \* _generate_excel_from_template: the sheet of the file at template_path
    s_dest,         \* _generate_excel_from_template: the sheet of the file at dest_path
    s_ws,           \* _generate_excel_from_template: ws, the sheet in memory
    s_plan,         \* _generate_excel_from_template: the plan argument
    s_pc,           \* _generate_excel_from_template: position in the function
    s_written,      \* cells of ws a value was assigned to
    s_filled,       \* cells of ws whose fill was set
    u_call,         \* save_multipart_upload: the upload and the max_bytes argument
    u_pc,           \* save_multipart_upload: position in the function
    u_size,         \* save_multipart_upload: size
    u_offset,       \* bytes of the upload that read() has handed out
    u_chunk,        \* save_multipart_upload: chunk, as <<offset in the upload, length>>
    u_dest,         \* the file at dest_path: whether it exists, the chunks it holds
    u_error,        \* status of the HTTPException the call raises (0: none)
    w_pass,         \* which of two calls on the same inputs is running (0: no pair)
    w_first,        \* the states the first call of the pair went through
    w_second        \* the states the second call of the pair went through

truncVars == <<t_agreement, t_standards, t_called, t_out>>
pipeVars == <<run, dirs, files, api_key, CLIENT>>
sheetVars == <<s_template, s_dest, s_ws, s_plan, s_pc, s_written, s_filled>>
uploadVars == <<u_call, u_pc, u_size, u_offset, u_chunk, u_dest, u_error>>
pairVars == <<w_pass, w_first, w_second>>
vars == <<t_agreement, t_standards, t_called, t_out, run, dirs, files, api_key, CLIENT,
          s_template, s_dest, s_ws, s_plan, s_pc, s_written, s_filled,
          u_call, u_pc, u_size, u_offset, u_chunk, u_dest, u_error,
          w_pass, w_first, w_second>>

Runs == 1..NumRuns

(***************************************************************************)
(* Texts.                                                                  *)
(***************************************************************************)
Text(l, c, t) == [lead |-> l, core |-> c, trail |-> t]

\* len(text)
TextLen(text) == text.lead + text.core + text.trail

Min(a, b) == IF a <= b THEN a ELSE b
Max(a, b) == IF a >= b THEN a ELSE b

\* text[:limit]
Slice(text, limit) ==
    LET l == Min(text.lead, limit)
        c == Min(text.core, limit - l)
        t == Min(text.trail, limit - l - c)
    IN  Text(l, c, t)

\* _truncate(text, limit) -> (text, truncated)
truncate(text, limit) ==
    IF TextLen(text) <= limit
    THEN [text |-> text, truncated |-> FALSE]
    ELSE [text |-> Slice(text, limit), truncated |-> TRUE]

\* _normalize_text(text): drop NUL bytes, strip surrounding whitespace
normalize_text(text) == Text(0, text.core, 0)

\* d[k] = v on a dict
DictSet(d, k, v) == [x \in (DOMAIN d) \cup {k} |-> IF x = k THEN v ELSE d[x]]

EmptyDict == [x \in {} |-> FALSE]

RECURSIVE SumLen(_)
\* sum(len(t) for _, t in standards)
SumLen(standards) ==
    IF standards = <<>> THEN 0
    ELSE TextLen(Head(standards).text) + SumLen(Tail(standards))

RECURSIVE CapLoop(_, _, _, _)
\* the per-file loop of _truncate_inputs
CapLoop(standards, i, normalized, flags) ==
    IF i > Len(standards)
    THEN [standards |-> normalized, flags |-> flags]
    ELSE LET r == truncate(normalize_text(standards[i].text), MAX_CHARS_PER_FILE)
         IN  CapLoop(standards, i + 1,
                     Append(normalized, [name |-> standards[i].name, text |-> r.text]),
                     DictSet(flags, standards[i].name, r.truncated))

\* an equal share of the remaining budget, without the floor
ShareWithoutFloor(agreement_len, n) == Max(0, MAX_TOTAL_CHARS - agreement_len) \div n

\* per_standard_budget of _truncate_inputs
PerStandardBudget(agreement_len, n) ==
    LET remaining_budget == Max(0, MAX_TOTAL_CHARS - agreement_len)
    IN  Max(MIN_STANDARD_BUDGET, remaining_budget \div n)

RECURSIVE BudgetLoopKeepsFlags(_, _, _, _, _)
\* the total-budget loop cutting the texts and leaving the flags as they were
BudgetLoopKeepsFlags(normalized, i, budget, final, flags) ==
    IF i > Len(normalized)
    THEN [standards |-> final, flags |-> flags]
    ELSE LET r == truncate(normalized[i].text, budget)
         IN  BudgetLoopKeepsFlags(normalized, i + 1, budget,
                                  Append(final, [name |-> normalized[i].name,
                                                 text |-> r.text]),
                                  flags)

RECURSIVE BudgetLoop(_, _, _, _, _)
\* the total-budget loop of _truncate_inputs
BudgetLoop(normalized, i, budget, final, flags) ==
    IF i > Len(normalized)
    THEN [standards |-> final, flags |-> flags]
    ELSE LET r == truncate(normalized[i].text, budget)
             nm == normalized[i].name
         IN  BudgetLoop(normalized, i + 1, budget,
                        Append(final, [name |-> nm, text |-> r.text]),
                        DictSet(flags, nm, flags[nm] \/ r.truncated))

TruncMeta(agreement_flag, standard_flags) ==
    [max_chars_per_file |-> MAX_CHARS_PER_FILE,
     max_total_chars |-> MAX_TOTAL_CHARS,
     truncated |-> [agreement |-> agreement_flag, standards |-> standard_flags]]

\* the total-budget phase entered whenever there is a standard
NeverWithinTotal(total, n) == n = 0

\* line 169: total <= MAX_TOTAL_CHARS or not normalized_standards
WithinTotal(total, n) == total <= MAX_TOTAL_CHARS \/ n = 0

\* _truncate_inputs(agreement_text, standards) -> (agreement_text, standards, meta)
truncate_inputs(agreement_text, standards) ==
    LET a == truncate(normalize_text(agreement_text), MAX_CHARS_PER_FILE)
        capped == CapLoop(standards, 1, <<>>, EmptyDict)
        total == TextLen(a.text) + SumLen(capped.standards)
    IN  IF WithinTotal(total, Len(capped.standards))
        THEN [agreement_text |-> a.text,
              standards |-> capped.standards,
              meta |-> TruncMeta(a.truncated, capped.flags)]
        ELSE LET budget == PerStandardBudget(TextLen(a.text), Len(capped.standards))
                 final == BudgetLoop(capped.standards, 1, budget, <<>>, capped.flags)
             IN  [agreement_text |-> a.text,
                  standards |-> final.standards,
                  meta |-> TruncMeta(a.truncated, final.flags)]

(***************************************************************************)
(* Strings that the code takes apart: sequences of one-character strings.  *)
(***************************************************************************)
Digit == {"0", "1", "2", "3", "4", "5", "6", "7", "8", "9"}

Letter ==
    {"A", "B", "C", "D", "E", "F", "G", "H", "I", "J", "K", "L", "M", "N", "O",
     "P", "Q", "R", "S", "T", "U", "V", "W", "X", "Y", "Z",
     "a", "b", "c", "d", "e", "f", "g", "h", "i", "j", "k", "l", "m", "n", "o",
     "p", "q", "r", "s", "t", "u", "v", "w", "x", "y", "z"}

\* the character class [A-Za-z0-9]
AlNum == Letter \cup Digit

AllIn(s, class) == \A i \in 1..Len(s) : s[i] \in class

RECURSIVE Replace(_, _)
\* s.replace(ch, "")
Replace(s, ch) ==
    IF s = <<>> THEN <<>>
    ELSE IF Head(s) = ch THEN Replace(Tail(s), ch)
         ELSE <<Head(s)>> \o Replace(Tail(s), ch)

RECURSIVE Split(_, _)
\* the pieces of s between the occurrences of sep
Split(s, sep) ==
    IF \A i \in 1..Len(s) : s[i] # sep
    THEN <<s>>
    ELSE LET k == CHOOSE i \in 1..Len(s) :
                      /\ s[i] = sep
                      /\ \A j \in 1..(i - 1) : s[j] # sep
         IN  <<SubSeq(s, 1, k - 1)>> \o Split(SubSeq(s, k + 1, Len(s)), sep)

\* where "$" may match: at the end, or before a final newline
BeforeDollar(s) ==
    IF s # <<>> /\ s[Len(s)] = "\n" THEN SubSeq(s, 1, Len(s) - 1) ELSE s

DirTI == <<"T", "I">>
DirTO == <<"T", "O">>
SuffixD == <<"D", ".", "x", "l", "s", "x">>

NoMatch == [matched |-> FALSE, client |-> <<>>, partner |-> <<>>,
            direction |-> <<>>, start |-> <<>>, end |-> <<>>]

\* FILENAME_PATTERN.match(filename): the named groups, or no match
FILENAME_PATTERN(filename) ==
    LET segs == Split(BeforeDollar(filename), "_")
    IN  IF /\ Len(segs) = 6
           /\ segs[1] # <<>> /\ AllIn(segs[1], AlNum)
           /\ segs[2] # <<>> /\ AllIn(segs[2], AlNum)
           /\ segs[3] \in {DirTI, DirTO}
           /\ Len(segs[4]) = 8 /\ AllIn(segs[4], Digit)
           /\ Len(segs[5]) = 8 /\ AllIn(segs[5], Digit)
           /\ segs[6] = SuffixD
        THEN [matched |-> TRUE, client |-> segs[1], partner |-> segs[2],
              direction |-> segs[3], start |-> segs[4], end |-> segs[5]]
        ELSE NoMatch

\* the check of _generate_excel_from_template before any file is touched:
\* 0 when the plan passes, else the status of the HTTPException raised
FilenameCheck(plan) ==
    LET match == FILENAME_PATTERN(plan.filename)
    IN  IF ~match.matched THEN 422
        ELSE IF match.direction # plan.direction THEN 422
        ELSE IF \/ match.start # Replace(plan.start_date, "-")
                \/ match.end # Replace(plan.end_date, "-")
             THEN 422
        ELSE 0

\* the pattern ^\d{4}-\d{2}-\d{2}$ of ExcelOutputPlan's date fields
IsoDate(s) ==
    /\ Len(s) = 10
    /\ s[5] = "-" /\ s[8] = "-"
    /\ \A i \in {1, 2, 3, 4, 6, 7, 9, 10} : s[i] \in Digit

\* ExcelOutputPlan: the field constraints pydantic enforces
ValidPlan(plan) ==
    /\ plan.direction \in {DirTI, DirTO}
    /\ Len(plan.client_tadig) >= 1
    /\ Len(plan.partner_tadig) >= 1
    /\ IsoDate(plan.start_date)
    /\ IsoDate(plan.end_date)
    /\ Len(plan.currency) >= 1
    /\ plan.sms_mo_rate >= 0
    /\ plan.sms_mt_rate >= 0
    /\ Len(plan.filename) >= 1

(***************************************************************************)
(* The plans and raw outputs the external model may return.                *)
(***************************************************************************)
TadigAB == <<"A", "B">>
TadigWX == <<"W", "X">>
TadigZZ == <<"Z", "9">>
Eur == <<"E", "U", "R">>
Jan1 == <<"2", "0", "2", "4", "-", "0", "1", "-", "0", "1">>
Dec31 == <<"2", "0", "2", "4", "-", "1", "2", "-", "3", "1">>
Jan1Digits == <<"2", "0", "2", "4", "0", "1", "0", "1">>
Dec31Digits == <<"2", "0", "2", "4", "1", "2", "3", "1">>
Dec30Digits == <<"2", "0", "2", "4", "1", "2", "3", "0">>

\* the file name the model writes for the given pieces
NameOf(client, partner, direction, start, end) ==
    client \o <<"_">> \o partner \o <<"_">> \o direction \o <<"_">> \o start
        \o <<"_">> \o end \o <<"_">> \o SuffixD

Plan(direction, mt, filename) ==
    [direction |-> direction, client_tadig |-> TadigAB, partner_tadig |-> TadigWX,
     start_date |-> Jan1, end_date |-> Dec31, currency |-> Eur,
     sms_mo_rate |-> 5, sms_mt_rate |-> mt, is_discount |-> TRUE,
     filename |-> filename]

PlanTI == Plan(DirTI, 0, NameOf(TadigAB, TadigWX, DirTI, Jan1Digits, Dec31Digits))
PlanTO == Plan(DirTO, 7, NameOf(TadigAB, TadigWX, DirTO, Jan1Digits, Dec31Digits))
\* a second plan under the filename of PlanTO, with another rate
PlanTOAgain == Plan(DirTO, 3, NameOf(TadigAB, TadigWX, DirTO, Jan1Digits, Dec31Digits))
PlanWrongDirection ==
    Plan(DirTI, 0, NameOf(TadigAB, TadigWX, DirTO, Jan1Digits, Dec31Digits))
PlanWrongStart ==
    Plan(DirTI, 0, NameOf(TadigAB, TadigWX, DirTI, Dec30Digits, Dec31Digits))
PlanWrongEnd ==
    Plan(DirTI, 0, NameOf(TadigAB, TadigWX, DirTI, Jan1Digits, Dec30Digits))
PlanWrongClient ==
    Plan(DirTI, 0, NameOf(TadigZZ, TadigWX, DirTI, Jan1Digits, Dec31Digits))
PlanWrongPartner ==
    Plan(DirTI, 0, NameOf(TadigAB, TadigZZ, DirTI, Jan1Digits, Dec31Digits))
PlanNoPattern ==
    Plan(DirTI, 0, TadigAB \o <<"_">> \o TadigWX \o <<".", "x", "l", "s", "x">>)
PlanBadDirection ==
    Plan(<<"X", "X">>, 0, NameOf(TadigAB, TadigWX, DirTI, Jan1Digits, Dec31Digits))

RawNotJson ==
    [text |-> "not json", parsable |-> FALSE, agreement_name |-> "", excel_outputs |-> <<>>]
RawBadSchema ==
    [text |-> "bad direction", parsable |-> TRUE, agreement_name |-> "bad",
     excel_outputs |-> <<PlanBadDirection>>]
RawEmpty ==
    [text |-> "no plans", parsable |-> TRUE, agreement_name |-> "empty", excel_outputs |-> <<>>]
RawOne ==
    [text |-> "one plan", parsable |-> TRUE, agreement_name |-> "one",
     excel_outputs |-> <<PlanTI>>]
RawPair ==
    [text |-> "two plans", parsable |-> TRUE, agreement_name |-> "pair",
     excel_outputs |-> <<PlanTI, PlanTO>>]
RawSecondWrong ==
    [text |-> "second plan wrong", parsable |-> TRUE, agreement_name |-> "second",
     excel_outputs |-> <<PlanTO, PlanWrongDirection>>]
RawWrongStart ==
    [text |-> "wrong start", parsable |-> TRUE, agreement_name |-> "start",
     excel_outputs |-> <<PlanTI, PlanWrongStart>>]
RawThirdWrong ==
    [text |-> "third plan wrong", parsable |-> TRUE, agreement_name |-> "third",
     excel_outputs |-> <<PlanTO, PlanTOAgain, PlanWrongEnd>>]
\* two valid plans under one filename
RawTwin ==
    [text |-> "same filename twice", parsable |-> TRUE, agreement_name |-> "twin",
     excel_outputs |-> <<PlanTO, PlanTOAgain>>]
RawWrongEnd ==
    [text |-> "wrong end", parsable |-> TRUE, agreement_name |-> "end",
     excel_outputs |-> <<PlanWrongEnd>>]
RawWrongClient ==
    [text |-> "wrong client", parsable |-> TRUE, agreement_name |-> "client",
     excel_outputs |-> <<PlanWrongClient>>]
RawWrongPartner ==
    [text |-> "wrong partner", parsable |-> TRUE, agreement_name |-> "partner",
     excel_outputs |-> <<PlanWrongPartner>>]
RawNoPattern ==
    [text |-> "no pattern", parsable |-> TRUE, agreement_name |-> "pattern",
     excel_outputs |-> <<PlanNoPattern>>]

\* response.choices[0].message.content of a successful invocation
Raws ==
    {RawNotJson, RawBadSchema, RawEmpty, RawOne, RawPair, RawSecondWrong,
     RawWrongStart, RawThirdWrong, RawTwin, RawWrongEnd, RawWrongClient, RawWrongPartner,
     RawNoPattern}

NoRaw == [text |-> "", parsable |-> FALSE, agreement_name |-> "", excel_outputs |-> <<>>]
NoLoader == [isNone |-> TRUE, agreement_name |-> "", excel_outputs |-> <<>>]
NoError == <<>>

\* _parse_and_validate_loader_json(raw): the LoaderOutput, or the ValueError
parse_and_validate_loader_json(raw) ==
    IF ~raw.parsable
    THEN [ok |-> FALSE, error |-> <<"Invalid JSON", raw.text>>, loader |-> NoLoader]
    ELSE IF \E i \in 1..Len(raw.excel_outputs) : ~ValidPlan(raw.excel_outputs[i])
    THEN [ok |-> FALSE, error |-> <<"JSON did not match schema", raw.text>>,
          loader |-> NoLoader]
    ELSE [ok |-> TRUE, error |-> NoError,
          loader |-> [isNone |-> FALSE, agreement_name |-> raw.agreement_name,
                      excel_outputs |-> raw.excel_outputs]]

(***************************************************************************)
(* Usage summaries.  A usage value is None or a dict.                      *)
(***************************************************************************)
None == [isNone |-> TRUE, entries |-> EmptyDict]
Dict(entries) == [isNone |-> FALSE, entries |-> entries]

\* Python truthiness of an Optional[dict]
Truthy(u) == ~u.isNone /\ DOMAIN u.entries # {}

TokenKeys == {"prompt_tokens", "completion_tokens", "total_tokens"}

\* what getattr(response, "usage", None) may be
UsageObjects ==
    {[kind |-> "none", fields |-> EmptyDict],
     [kind |-> "dict", fields |-> EmptyDict],
     [kind |-> "model", fields |-> [k \in TokenKeys |-> 1]],
     [kind |-> "object", fields |-> [k \in {"prompt_tokens", "cost"} |-> 1]],
     [kind |-> "object", fields |-> [k \in {"cost"} |-> 1]]}

\* _usage_to_dict(usage)
usage_to_dict(usage) ==
    IF usage.kind = "none" THEN None
    ELSE IF usage.kind = "dict" THEN Dict(usage.fields)
    ELSE IF usage.kind = "model" THEN Dict(usage.fields)
    ELSE LET out == [k \in (DOMAIN usage.fields) \cap TokenKeys |-> usage.fields[k]]
         IN  IF DOMAIN out # {} THEN Dict(out) ELSE None

\* lines 276-279 of generate_loader_artifacts: usage after the repair call
MergeUsage(usage, usage2) ==
    IF Truthy(usage) /\ Truthy(usage2)
    THEN Dict([k \in {"first_call", "retry_call"} |->
                   IF k = "first_call" THEN usage ELSE usage2])
    ELSE IF Truthy(usage2)
    THEN Dict([k \in {"retry_call"} |-> usage2])
    ELSE usage

(***************************************************************************)
(* Exceptions of an invocation of the external model.                      *)
(***************************************************************************)
\* the classes an exception is an instance of
Exceptions ==
    {[class |-> "APITimeoutError", bases |-> {"APITimeoutError", "OpenAIError", "Exception"}],
     [class |-> "RateLimitError", bases |-> {"OpenAIError", "Exception"}],
     [class |-> "ConnectError", bases |-> {"Exception"}]}

NoException == [class |-> "", bases |-> {}]

\* the except clauses with OpenAIError tried before APITimeoutError
ClassifyOpenAIErrorFirst(exc) ==
    IF "OpenAIError" \in exc.bases
    THEN [status |-> 502, message |-> "OpenAI API error"]
    ELSE IF "APITimeoutError" \in exc.bases
    THEN [status |-> 504, message |-> "OpenAI request timed out."]
    ELSE [status |-> 502, message |-> "OpenAI call failed"]

\* the except clauses of generate_json_object, in order: the HTTPException raised
ClassifyError(exc) ==
    IF "APITimeoutError" \in exc.bases
    THEN [status |-> 504, message |-> "OpenAI request timed out."]
    ELSE IF "OpenAIError" \in exc.bases
    THEN [status |-> 502, message |-> "OpenAI API error"]
    ELSE [status |-> 502, message |-> "OpenAI call failed"]

\* retries=2 of the first call
FIRST_RETRIES == 2

\* the repair call given the budget of the first call
RepairRetriesNotReduced == FIRST_RETRIES

\* retries=1 of the repair call
REPAIR_RETRIES == 1

(***************************************************************************)
(* Documents and text extraction.                                          *)
(***************************************************************************)
\* readable: the file opens (PdfReader, Document, load_workbook, read_text
\* return); encrypted: a PDF that opens and whose pages cannot be read
Doc(name, stem, suffix, readable, encrypted, text) ==
    [name |-> name, stem |-> stem, suffix |-> suffix, readable |-> readable,
     encrypted |-> encrypted, text |-> text]

AgreementDocs ==
    {Doc("a.txt", <<"a">>, ".txt", TRUE, FALSE, Text(0, 200, 0)),
     Doc("a_v2.pdf", <<"a", "_", "v", "2">>, ".pdf", TRUE, FALSE, Text(3, 60000, 2)),
     Doc("c.docx", <<"c">>, ".docx", FALSE, FALSE, Text(0, 0, 0)),
     Doc("p.pdf", <<"p">>, ".pdf", TRUE, TRUE, Text(0, 0, 0))}

\* the standards of a batch directory, sorted by name
StandardDocs ==
    <<Doc("s1.xlsx", <<"s", "1">>, ".xlsx", TRUE, FALSE, Text(2, 70000, 0)),
      Doc("s2.txt", <<"s", "2">>, ".txt", TRUE, FALSE, Text(0, 200, 0)),
      Doc("s3.pdf", <<"s", "3">>, ".pdf", FALSE, FALSE, Text(0, 0, 0)),
      Doc("s4.pdf", <<"s", "4">>, ".pdf", TRUE, TRUE, Text(0, 0, 0))>>

RECURSIVE Sorted(_)
\* the documents with the given indices, in name order
Sorted(idx) ==
    IF idx = {} THEN <<>>
    ELSE LET m == CHOOSE i \in idx : \A j \in idx : i <= j
         IN  <<StandardDocs[m]>> \o Sorted(idx \ {m})

\* the values of standard_paths
StandardPathLists ==
    {Sorted(idx) : idx \in {x \in SUBSET (1..Len(StandardDocs)) :
                               Cardinality(x) <= MaxRunStandards}}

SupportedSuffixes == {".txt", ".docx", ".pdf", ".xlsx"}

\* extract_text(file_path): the text, or the exception it ends with.
\* TextExtractionError for an unsupported suffix (line 24) and for a file that
\* does not open (the try blocks of _extract_txt/_docx/_pdf/_xlsx); the pages
\* of a PDF are read outside the try block of _extract_pdf (lines 51-58), so
\* the reader's own error for an encrypted file leaves extract_text as it is
extract_text(doc) ==
    IF doc.suffix \notin SupportedSuffixes
    THEN [ok |-> FALSE, error |-> "TextExtractionError", text |-> Text(0, 0, 0)]
    ELSE IF ~doc.readable
    THEN [ok |-> FALSE, error |-> "TextExtractionError", text |-> Text(0, 0, 0)]
    ELSE IF doc.suffix = ".pdf" /\ doc.encrypted
    THEN [ok |-> FALSE, error |-> "FileNotDecryptedError", text |-> Text(0, 0, 0)]
    ELSE [ok |-> TRUE, error |-> "", text |-> doc.text]

\* safe_agreement_base_name(stored_filename, agreement_id)
safe_agreement_base_name(doc) ==
    IF doc.stem = <<>> THEN <<"a", "g", "r", "e", "e", "m", "e", "n", "t">> ELSE doc.stem

(***************************************************************************)
(* Output directories.                                                     *)
(***************************************************************************)

\* range(2, 10_000) taken to include 10_000
LastVersionInclusive == 9999 + 1

\* the last i of range(2, 10_000)
LAST_VERSION == 9999

DigitChars == <<"0", "1", "2", "3", "4", "5", "6", "7", "8", "9">>

RECURSIVE Decimal(_)
\* str(n) for n >= 0
Decimal(n) ==
    IF n < 10 THEN <<DigitChars[n + 1]>>
    ELSE Decimal(n \div 10) \o <<DigitChars[(n % 10) + 1]>>

\* a candidates list without base_name_v2
CandidateSkipsV2(base_name, i) ==
    IF i = 1 THEN base_name ELSE base_name \o <<"_", "v">> \o Decimal(i + 1)

\* candidates[i - 1] of create_versioned_output_dir, for i in 1..LAST_VERSION
Candidate(base_name, i) ==
    IF i = 1 THEN base_name ELSE base_name \o <<"_", "v">> \o Decimal(i)

LoaderJson == <<"l", "o", "a", "d", "e", "r", ".", "j", "s", "o", "n">>
MetaJson == <<"m", "e", "t", "a", ".", "j", "s", "o", "n">>

\* mkdir with exist_ok=True: an existing directory is taken over
MkdirExistOk(existing, name) == TRUE

\* p.mkdir(parents=True, exist_ok=False) succeeds
MkdirCreates(existing, name) == name \notin DOMAIN existing

\* the directories found under OUTPUT_DIR when the runs start
OlderDirs ==
    {EmptyDict,
     [d \in {<<"a">>} |-> 0],
     [d \in {<<"a">>, <<"a", "_", "v", "2">>} |-> 0]}

(***************************************************************************)
(* generate_loader_artifacts: one record of locals per call.               *)
(***************************************************************************)
\* an HTTPException (or, with status 500, an exception nobody handles)
Raised(status, message, cause, last, first) ==
    [status |-> status, message |-> message, cause |-> cause,
     last_error |-> last, first_error |-> first]

NoDetail == Raised(0, "", "", NoError, NoError)

\* lines 233-234 and 240-241: TextExtractionError becomes HTTPException 422;
\* any other exception leaves generate_loader_artifacts unhandled (500)
ExtractionFault(got) ==
    IF got.error = "TextExtractionError"
    THEN Raised(422, "extraction failed", got.error, NoError, NoError)
    ELSE Raised(500, "unhandled exception", got.error, NoError, NoError)

Prompt(kind, agreement_filename, agreement_text, standards, previous_output) ==
    [kind |-> kind, agreement_filename |-> agreement_filename,
     agreement_text |-> agreement_text, standards |-> standards,
     previous_output |-> previous_output]

NoPrompt == Prompt("", "", Text(0, 0, 0), <<>>, NoRaw)

\* _build_user_prompt(agreement_filename, agreement_text, standards)
build_user_prompt(agreement_filename, agreement_text, standards) ==
    Prompt("generate", agreement_filename, agreement_text, standards, NoRaw)

\* fix_prompt of generate_loader_artifacts
FixPrompt(raw_json) == Prompt("fix", "", Text(0, 0, 0), <<>>, raw_json)

NoResponse ==
    [output_dir |-> <<>>, loader_excel_paths |-> <<>>, excel_files_count |-> 0]

IdleRun ==
    [pc |-> "idle",
     agreement_path |-> Doc("", <<>>, "", FALSE, FALSE, Text(0, 0, 0)),
     standard_paths |-> <<>>,
     agreement_text |-> Text(0, 0, 0),
     standards |-> <<>>,
     extract_calls |-> 0,    \* calls of extract_text so far
     trunc_meta |-> TruncMeta(FALSE, EmptyDict),
     user_prompt |-> NoPrompt,
     calls |-> 0,            \* calls of generate_json_object so far
     retries |-> 0,          \* generate_json_object: retries
     attempt |-> 0,          \* generate_json_object: attempt
     inflight |-> 0,         \* requests to the external model not yet answered
     outcomes |-> <<>>,      \* how the invocations of the current call ended
     invocations |-> 0,      \* requests sent to the external model so far
     last_error |-> NoException,
     raw_json |-> NoRaw,
     usage |-> None,
     raw_json2 |-> NoRaw,
     usage2 |-> None,
     parse_error |-> NoError,
     loader |-> NoLoader,
     i |-> 0,                \* create_versioned_output_dir: index of the candidate
     tries |-> <<>>,         \* create_versioned_output_dir: the mkdir calls made
     output_dir |-> <<>>,
     plan_i |-> 0,           \* index of the plan being templated
     loader_excel_paths |-> <<>>,
     template_reads |-> 0,   \* times the template file was read
     error |-> NoDetail,
     response |-> NoResponse]

\* the locals at the entry of generate_loader_artifacts
NewRun(agreement_path, standard_paths) ==
    [IdleRun EXCEPT !.pc = "extract_agreement",
                    !.agreement_path = agreement_path,
                    !.standard_paths = standard_paths]

\* the call ends with the exception exc
Fail(r, exc) ==
    run' = [run EXCEPT ![r].pc = "failed", ![r].error = exc]

\* lines 231-234
ExtractAgreement(r) ==
    /\ run[r].pc = "extract_agreement"
    /\ LET got == extract_text(run[r].agreement_path)
       IN  IF got.ok
           THEN run' = [run EXCEPT ![r].pc = "extract_standard",
                                   ![r].extract_calls = @ + 1,
                                   ![r].agreement_text = got.text]
           ELSE run' = [run EXCEPT ![r].pc = "failed",
                                   ![r].extract_calls = @ + 1,
                                   ![r].error = ExtractionFault(got)]
    /\ UNCHANGED <<dirs, files, api_key, CLIENT, truncVars, sheetVars, uploadVars, pairVars>>

\* lines 236-241, one iteration
ExtractStandard(r) ==
    /\ run[r].pc = "extract_standard"
    /\ Len(run[r].standards) < Len(run[r].standard_paths)
    /\ LET p == run[r].standard_paths[Len(run[r].standards) + 1]
           got == extract_text(p)
       IN  IF got.ok
           THEN run' = [run EXCEPT ![r].extract_calls = @ + 1,
                                   ![r].standards =
                                       Append(@, [name |-> p.name, text |-> got.text])]
           ELSE run' = [run EXCEPT ![r].pc = "failed",
                                   ![r].extract_calls = @ + 1,
                                   ![r].error = ExtractionFault(got)]
    /\ UNCHANGED <<dirs, files, api_key, CLIENT, truncVars, sheetVars, uploadVars, pairVars>>

\* lines 243-255: budget the texts, build the prompt, call generate_json_object
BuildPrompt(r) ==
    /\ run[r].pc = "extract_standard"
    /\ Len(run[r].standards) = Len(run[r].standard_paths)
    /\ LET out == truncate_inputs(run[r].agreement_text, run[r].standards)
       IN  run' = [run EXCEPT ![r].pc = "call",
                              ![r].agreement_text = out.agreement_text,
                              ![r].standards = out.standards,
                              ![r].trunc_meta = out.meta,
                              ![r].user_prompt =
                                  build_user_prompt(run[r].agreement_path.name,
                                                    out.agreement_text, out.standards),
                              ![r].retries = FIRST_RETRIES]
    /\ UNCHANGED <<dirs, files, api_key, CLIENT, truncVars, sheetVars, uploadVars, pairVars>>

(***************************************************************************)
(* generate_json_object.                                                   *)
(***************************************************************************)
\* lines 51-53: get_openai_client(), then the loop starts at attempt 0
EnterGenerate(r) ==
    /\ run[r].pc = "call"
    /\ IF CLIENT \/ api_key
       THEN /\ CLIENT' = TRUE
            /\ run' = [run EXCEPT ![r].pc = "invoke",
                                  ![r].calls = @ + 1,
                                  ![r].attempt = 0,
                                  ![r].outcomes = <<>>,
                                  ![r].last_error = NoException]
       ELSE /\ CLIENT' = CLIENT
            /\ run' = [run EXCEPT ![r].pc = "failed",
                                  ![r].calls = @ + 1,
                                  ![r].outcomes = <<>>,
                                  ![r].error =
                                      Raised(500, "OPENAI_API_KEY is not set",
                                             "RuntimeError", NoError, NoError)]
    /\ UNCHANGED <<dirs, files, api_key, truncVars, sheetVars, uploadVars, pairVars>>

\* an off-by-one retry test
MayRetryOnceMore(attempt, retries) == attempt <= retries

\* another attempt follows a failed one
MayRetry(attempt, retries) == attempt < retries

\* line 55: the request of this attempt is sent
Invoke(r) ==
    /\ run[r].pc = "invoke"
    /\ run' = [run EXCEPT ![r].pc = "await",
                          ![r].inflight = @ + 1,
                          ![r].invocations = @ + 1]
    /\ UNCHANGED <<dirs, files, api_key, CLIENT, truncVars, sheetVars, uploadVars, pairVars>>

\* lines 65-67: the request is answered; the call returns (content, usage)
RespondOk(r) ==
    /\ run[r].pc = "await"
    /\ \E content \in Raws, usage \in UsageObjects :
          run' = [run EXCEPT
                     ![r].pc = IF run[r].calls = 1 THEN "validate" ELSE "validate_repair",
                     ![r].inflight = @ - 1,
                     ![r].outcomes = Append(@, "ok"),
                     ![r].raw_json = IF run[r].calls = 1 THEN content ELSE @,
                     ![r].usage = IF run[r].calls = 1 THEN usage_to_dict(usage) ELSE @,
                     ![r].raw_json2 = IF run[r].calls = 1 THEN @ ELSE content,
                     ![r].usage2 = IF run[r].calls = 1 THEN @ ELSE usage_to_dict(usage)]
    /\ UNCHANGED <<dirs, files, api_key, CLIENT, truncVars, sheetVars, uploadVars, pairVars>>

\* lines 68-82: the request fails; retry, or raise the classified error
RespondError(r) ==
    /\ run[r].pc = "await"
    /\ \E exc \in Exceptions :
          IF MayRetry(run[r].attempt, run[r].retries)
          THEN run' = [run EXCEPT ![r].pc = "invoke",
                                  ![r].inflight = @ - 1,
                                  ![r].outcomes = Append(@, exc.class),
                                  ![r].last_error = exc,
                                  ![r].attempt = @ + 1]
          ELSE run' = [run EXCEPT ![r].pc = "failed",
                                  ![r].inflight = @ - 1,
                                  ![r].outcomes = Append(@, exc.class),
                                  ![r].last_error = exc,
                                  ![r].error =
                                      LET e == ClassifyError(exc)
                                      IN  Raised(e.status, e.message, exc.class,
                                                 NoError, NoError)]
    /\ UNCHANGED <<dirs, files, api_key, CLIENT, truncVars, sheetVars, uploadVars, pairVars>>

(***************************************************************************)
(* Validation and the repair round-trip.                                   *)
(***************************************************************************)
\* lines 257-275: validate the first output; on failure start the repair call
\* (the locals of the generate_json_object call that returned are gone)
Validate(r) ==
    /\ run[r].pc = "validate"
    /\ LET got == parse_and_validate_loader_json(run[r].raw_json)
       IN  IF got.ok
           THEN run' = [run EXCEPT ![r].pc = "check_excel",
                                   ![r].attempt = 0,
                                   ![r].outcomes = <<>>,
                                   ![r].last_error = NoException,
                                   ![r].loader = got.loader]
           ELSE run' = [run EXCEPT ![r].pc = "call",
                                   ![r].attempt = 0,
                                   ![r].outcomes = <<>>,
                                   ![r].last_error = NoException,
                                   ![r].parse_error = got.error,
                                   ![r].user_prompt = FixPrompt(run[r].raw_json),
                                   ![r].retries = REPAIR_RETRIES]
    /\ UNCHANGED <<dirs, files, api_key, CLIENT, truncVars, sheetVars, uploadVars, pairVars>>

\* line 283 left out
RepairedRawStale(raw_json, raw_json2) == raw_json

\* the raw output the run goes on with after a repair that validates
RepairedRaw(raw_json, raw_json2) == raw_json2

\* the repair error without the first error
RepairFailureLastOnly(last, first) ==
    Raised(502, "Model returned invalid JSON after retry", "ValueError", last, NoError)

\* lines 285-288: the HTTPException after a repair that does not validate
RepairFailure(last, first) ==
    Raised(502, "Model returned invalid JSON after retry", "ValueError", last, first)

\* lines 276-288: merge the usage, validate the repaired output
ValidateRepair(r) ==
    /\ run[r].pc = "validate_repair"
    /\ LET got == parse_and_validate_loader_json(run[r].raw_json2)
           usage == MergeUsage(run[r].usage, run[r].usage2)
       IN  IF got.ok
           THEN run' = [run EXCEPT ![r].pc = "check_excel",
                                   ![r].attempt = 0,
                                   ![r].outcomes = <<>>,
                                   ![r].last_error = NoException,
                                   ![r].usage = usage,
                                   ![r].loader = got.loader,
                                   ![r].raw_json =
                                       RepairedRaw(run[r].raw_json, run[r].raw_json2)]
           ELSE run' = [run EXCEPT ![r].pc = "failed",
                                   ![r].attempt = 0,
                                   ![r].outcomes = <<>>,
                                   ![r].last_error = NoException,
                                   ![r].usage = usage,
                                   ![r].error =
                                       RepairFailure(got.error, run[r].parse_error)]
    /\ UNCHANGED <<dirs, files, api_key, CLIENT, truncVars, sheetVars, uploadVars, pairVars>>

\* a test that never fires
NeverNoExcelOutputs(loader) == FALSE

\* line 290: not loader.excel_outputs
NoExcelOutputs(loader) == loader.excel_outputs = <<>>

\* lines 290-294: no plans is fatal; else enter create_versioned_output_dir
CheckExcelOutputs(r) ==
    /\ run[r].pc = "check_excel"
    /\ IF NoExcelOutputs(run[r].loader)
       THEN Fail(r, Raised(422, "No excel_outputs were returned", "", NoError, NoError))
       ELSE run' = [run EXCEPT ![r].pc = "mkdir", ![r].i = 1]
    /\ UNCHANGED <<dirs, files, api_key, CLIENT, truncVars, sheetVars, uploadVars, pairVars>>

(***************************************************************************)
(* Output directory, loader.json, spreadsheets, meta.json.                 *)
(***************************************************************************)
\* create_versioned_output_dir, one iteration of its loop: an exclusive mkdir
Mkdir(r) ==
    /\ run[r].pc = "mkdir"
    /\ LET name == Candidate(safe_agreement_base_name(run[r].agreement_path), run[r].i)
           tried == Append(run[r].tries, [name |-> name, free |-> name \notin DOMAIN dirs])
       IN  IF MkdirCreates(dirs, name)
           THEN /\ dirs' = DictSet(dirs, name, r)
                /\ run' = [run EXCEPT ![r].pc = "write_loader", ![r].output_dir = name,
                                      ![r].tries = tried]
           ELSE /\ dirs' = dirs
                /\ IF run[r].i < LAST_VERSION
                   THEN run' = [run EXCEPT ![r].i = @ + 1, ![r].tries = tried]
                   ELSE run' = [run EXCEPT
                                   ![r].pc = "failed",
                                   ![r].tries = tried,
                                   ![r].error =
                                       Raised(500, "Failed to allocate a versioned output directory",
                                              "RuntimeError", NoError, NoError)]
    /\ UNCHANGED <<files, api_key, CLIENT, truncVars, sheetVars, uploadVars, pairVars>>

File(kind, body) == [kind |-> kind, body |-> body]

\* json.loads(raw_json)
ParsedJson(raw) ==
    [agreement_name |-> raw.agreement_name, excel_outputs |-> raw.excel_outputs]

\* the journal written together with loader.json, before the spreadsheets
WriteLoaderAndMeta(r) ==
    /\ run[r].pc = "write_loader"
    /\ files' = DictSet(DictSet(files, <<run[r].output_dir, LoaderJson>>,
                                File("loader", ParsedJson(run[r].raw_json))),
                        <<run[r].output_dir, MetaJson>>,
                        File("meta",
                             [agreement_file |-> run[r].agreement_path.name,
                              standard_files |->
                                  [k \in 1..Len(run[r].standard_paths) |->
                                       run[r].standard_paths[k].name],
                              truncation |-> run[r].trunc_meta,
                              openai_usage |-> run[r].usage,
                              loader_excel |-> run[r].loader_excel_paths,
                              excel_plans |-> run[r].loader.excel_outputs]))
    /\ run' = [run EXCEPT ![r].pc = "pick_template"]
    /\ UNCHANGED <<dirs, api_key, CLIENT, truncVars, sheetVars, uploadVars, pairVars>>

\* lines 296-304
WriteLoader(r) ==
    /\ run[r].pc = "write_loader"
    /\ files' = DictSet(files, <<run[r].output_dir, LoaderJson>>,
                        File("loader", ParsedJson(run[r].raw_json)))
    /\ run' = [run EXCEPT ![r].pc = "pick_template"]
    /\ UNCHANGED <<dirs, api_key, CLIENT, truncVars, sheetVars, uploadVars, pairVars>>

\* without the check of lines 308-309: no template, no spreadsheet
PickTemplateUnchecked(r) ==
    /\ run[r].pc = "pick_template"
    /\ IF run[r].standard_paths = <<>>
       THEN run' = [run EXCEPT ![r].pc = "write_meta"]
       ELSE run' = [run EXCEPT ![r].pc = "plan_check", ![r].plan_i = 1]
    /\ UNCHANGED <<dirs, files, api_key, CLIENT, truncVars, sheetVars, uploadVars, pairVars>>

\* lines 306-309
PickTemplate(r) ==
    /\ run[r].pc = "pick_template"
    /\ IF run[r].standard_paths = <<>>
       THEN Fail(r, Raised(400, "No standard template available", "", NoError, NoError))
       ELSE run' = [run EXCEPT ![r].pc = "plan_check", ![r].plan_i = 1]
    /\ UNCHANGED <<dirs, files, api_key, CLIENT, truncVars, sheetVars, uploadVars, pairVars>>

\* the plans taken from the end of the list
LastPlanFirst(r) ==
    run[r].loader.excel_outputs[Len(run[r].loader.excel_outputs) - run[r].plan_i + 1]

\* line 311: the plan of this iteration of `for plan in loader.excel_outputs`
CurrentPlan(r) == run[r].loader.excel_outputs[run[r].plan_i]

\* the check made after the copy instead of before it
PlanCheckAfterCopy(r) ==
    /\ run[r].pc = "plan_check"
    /\ files' = DictSet(files, <<run[r].output_dir, CurrentPlan(r).filename>>,
                        File("copy", [template |-> run[r].standard_paths[1].name,
                                      plan |-> {}]))
    /\ LET status == FilenameCheck(CurrentPlan(r))
       IN  IF status # 0
           THEN run' = [run EXCEPT ![r].pc = "failed",
                                   ![r].template_reads = @ + 1,
                                   ![r].error =
                                       Raised(status, "filename does not match the plan",
                                              "", NoError, NoError)]
           ELSE run' = [run EXCEPT ![r].pc = "plan_save", ![r].template_reads = @ + 1]
    /\ UNCHANGED <<dirs, api_key, CLIENT, truncVars, sheetVars, uploadVars, pairVars>>

\* _generate_excel_from_template, lines 98-116
PlanCheck(r) ==
    /\ run[r].pc = "plan_check"
    /\ LET status == FilenameCheck(CurrentPlan(r))
       IN  IF status # 0
           THEN Fail(r, Raised(status, "filename does not match the plan", "",
                               NoError, NoError))
           ELSE run' = [run EXCEPT ![r].pc = "plan_copy"]
    /\ UNCHANGED <<dirs, files, api_key, CLIENT, truncVars, sheetVars, uploadVars, pairVars>>

\* a copy that refuses to replace a file that is already at the destination
PlanCopyExclusive(r) ==
    /\ run[r].pc = "plan_copy"
    /\ IF <<run[r].output_dir, CurrentPlan(r).filename>> \in DOMAIN files
       THEN /\ files' = files
            /\ Fail(r, Raised(500, "destination exists", "FileExistsError",
                              NoError, NoError))
       ELSE /\ files' = DictSet(files, <<run[r].output_dir, CurrentPlan(r).filename>>,
                                File("copy", [template |-> run[r].standard_paths[1].name,
                                              plan |-> {}]))
            /\ run' = [run EXCEPT ![r].pc = "plan_save", ![r].template_reads = @ + 1]
    /\ UNCHANGED <<dirs, api_key, CLIENT, truncVars, sheetVars, uploadVars, pairVars>>

\* _generate_excel_from_template, lines 118-119: shutil.copy(template, dest)
PlanCopy(r) ==
    /\ run[r].pc = "plan_copy"
    /\ files' = DictSet(files, <<run[r].output_dir, CurrentPlan(r).filename>>,
                        File("copy", [template |-> run[r].standard_paths[1].name,
                                      plan |-> {}]))
    /\ run' = [run EXCEPT ![r].pc = "plan_save", ![r].template_reads = @ + 1]
    /\ UNCHANGED <<dirs, api_key, CLIENT, truncVars, sheetVars, uploadVars, pairVars>>

\* _generate_excel_from_template, lines 121-135, and line 315
PlanSave(r) ==
    /\ run[r].pc = "plan_save"
    /\ LET dest == <<run[r].output_dir, CurrentPlan(r).filename>>
       IN  IF run[r].standard_paths[1].suffix # ".xlsx"
           THEN /\ files' = files
                /\ Fail(r, Raised(500, "load_workbook failed", "InvalidFileException",
                                  NoError, NoError))
           ELSE /\ files' = DictSet(files, dest,
                                    File("xlsx", [template |-> run[r].standard_paths[1].name,
                                                  plan |-> {CurrentPlan(r)}]))
                /\ run' = [run EXCEPT
                              ![r].loader_excel_paths = Append(@, dest),
                              ![r].plan_i = @ + 1,
                              ![r].pc = IF run[r].plan_i < Len(run[r].loader.excel_outputs)
                                        THEN "plan_check" ELSE "write_meta"]
    /\ UNCHANGED <<dirs, api_key, CLIENT, truncVars, sheetVars, uploadVars, pairVars>>

\* a journal that reads the token counts: with no usage it raises TypeError
WriteMetaReadsUsage(r) ==
    /\ run[r].pc = "write_meta"
    /\ IF Truthy(run[r].usage)
       THEN /\ files' = DictSet(files, <<run[r].output_dir, MetaJson>>,
                                File("meta",
                                     [agreement_file |-> run[r].agreement_path.name,
                                      standard_files |->
                                          [k \in 1..Len(run[r].standard_paths) |->
                                               run[r].standard_paths[k].name],
                                      truncation |-> run[r].trunc_meta,
                                      openai_usage |-> run[r].usage,
                                      loader_excel |-> run[r].loader_excel_paths,
                                      excel_plans |-> run[r].loader.excel_outputs]))
            /\ run' = [run EXCEPT ![r].pc = "return"]
       ELSE /\ files' = files
            /\ Fail(r, Raised(500, "unhandled exception", "TypeError", NoError, NoError))
    /\ UNCHANGED <<dirs, api_key, CLIENT, truncVars, sheetVars, uploadVars, pairVars>>

\* lines 317-341
WriteMeta(r) ==
    /\ run[r].pc = "write_meta"
    /\ files' = DictSet(files, <<run[r].output_dir, MetaJson>>,
                        File("meta",
                             [agreement_file |-> run[r].agreement_path.name,
                              standard_files |->
                                  [k \in 1..Len(run[r].standard_paths) |->
                                       run[r].standard_paths[k].name],
                              truncation |-> run[r].trunc_meta,
                              openai_usage |-> run[r].usage,
                              loader_excel |-> run[r].loader_excel_paths,
                              excel_plans |-> run[r].loader.excel_outputs]))
    /\ run' = [run EXCEPT ![r].pc = "return"]
    /\ UNCHANGED <<dirs, api_key, CLIENT, truncVars, sheetVars, uploadVars, pairVars>>

\* lines 343-370
Return(r) ==
    /\ run[r].pc = "return"
    /\ run' = [run EXCEPT
                  ![r].pc = "done",
                  ![r].response =
                      [output_dir |-> run[r].output_dir,
                       loader_excel_paths |-> run[r].loader_excel_paths,
                       excel_files_count |-> Len(run[r].loader_excel_paths)]]
    /\ UNCHANGED <<dirs, files, api_key, CLIENT, truncVars, sheetVars, uploadVars, pairVars>>

(***************************************************************************)
(* Worksheets: the active sheet of a workbook, cell -> value and fill.     *)
(***************************************************************************)
SMS_MO_ROW == 35
SMS_MT_ROW == 53
SMS_RATE_COL == "J"
SMS_DISCOUNT_COL == "I"
SMS_CURRENCY_COL == "H"
SMS_INITIAL_FEE_COL == "L"
SMS_CHARGING_INTERVAL_COL == "K"

\* the columns and rows of the sheet that are followed: those the code names
\* and some it does not
SheetCols == {"C", "G", "H", "I", "J", "K", "L", "M", "P", "Q", "R"}
SheetRows == {2, SMS_MO_ROW, 36, SMS_MT_ROW}
Cells == SheetCols \X SheetRows

\* cell values: None, a str, a number
NoneValue == [kind |-> "none", s |-> <<>>, n |-> 0]
Str(s) == [kind |-> "str", s |-> s, n |-> 0]
Num(n) == [kind |-> "num", s |-> <<>>, n |-> n]

\* PatternFill(fill_type="solid", fgColor="FFFF00")
Highlight == "FFFF00"

\* ws[cell] = value: the value changes, the style stays
SetValue(ws, cell, value) == [ws EXCEPT ![cell].value = value]

\* a fill assignment that also empties the cell
SetFillClearsValue(ws, cell, fill) == [ws EXCEPT ![cell] = [value |-> NoneValue, fill |-> fill]]

\* ws[cell].fill = fill: the fill changes, the value stays
SetFill(ws, cell, fill) == [ws EXCEPT ![cell].fill = fill]

\* _write_sms_row(ws, row_idx, rate=, currency=, is_discount=, highlight=)
write_sms_row(ws, row_idx, rate, currency, is_discount, highlight) ==
    LET w1 == SetValue(ws, <<SMS_CURRENCY_COL, row_idx>>, Str(currency))
        w2 == SetValue(w1, <<SMS_DISCOUNT_COL, row_idx>>, Num(IF is_discount THEN 1 ELSE 0))
        w3 == SetValue(w2, <<SMS_RATE_COL, row_idx>>, Num(rate))
        w4 == SetValue(w3, <<SMS_INITIAL_FEE_COL, row_idx>>, Str(<<>>))
        w5 == SetFill(w4, <<SMS_RATE_COL, row_idx>>, highlight)
        w6 == SetFill(w5, <<SMS_CHARGING_INTERVAL_COL, row_idx>>, highlight)
        w7 == SetValue(w6, <<"P", row_idx>>, NoneValue)
        w8 == SetValue(w7, <<"Q", row_idx>>, NoneValue)
    IN  SetValue(w8, <<"R", row_idx>>, NoneValue)

\* the cells _write_sms_row assigns a value to, and those it sets the fill of
RowValueCells(row_idx) ==
    {<<c, row_idx>> : c \in {SMS_CURRENCY_COL, SMS_DISCOUNT_COL, SMS_RATE_COL,
                             SMS_INITIAL_FEE_COL, "P", "Q", "R"}}
RowFillCells(row_idx) ==
    {<<c, row_idx>> : c \in {SMS_RATE_COL, SMS_CHARGING_INTERVAL_COL}}

\* the SMS-MT row written for every plan
AlwaysWritesMT(plan) == TRUE

\* line 132: plan.sms_mt_rate and plan.sms_mt_rate > 0
WritesMT(plan) == plan.sms_mt_rate # 0 /\ plan.sms_mt_rate > 0

Old == <<"o", "l", "d">>
Usd == <<"U", "S", "D">>

\* the template workbooks: every cell filled in, every cell empty, and one
\* with intervals, off-peak values and the partner already in place
SheetTemplates ==
    {[c \in Cells |-> [value |-> Str(Old), fill |-> "none"]],
     [c \in Cells |-> [value |-> NoneValue, fill |-> "grey"]],
     [c \in Cells |->
         IF c[1] = SMS_CHARGING_INTERVAL_COL THEN [value |-> Num(60), fill |-> Highlight]
         ELSE IF c[1] \in {"P", "Q", "R", SMS_RATE_COL} THEN [value |-> Num(1), fill |-> "none"]
         ELSE IF c = <<"C", 2>> THEN [value |-> Str(TadigWX), fill |-> "grey"]
         ELSE [value |-> NoneValue, fill |-> "none"]]}

\* the plans handed to _generate_excel_from_template
SheetPlans ==
    {[p EXCEPT !.sms_mt_rate = mt, !.is_discount = d, !.currency = cur] :
         p \in {PlanTI, PlanTO, PlanWrongDirection, PlanNoPattern},
         mt \in {0, 7}, d \in BOOLEAN, cur \in {Eur, Usd}}

NoSheet == [c \in {} |-> [value |-> NoneValue, fill |-> "none"]]

SheetIdle ==
    /\ s_template = NoSheet
    /\ s_dest = NoSheet
    /\ s_ws = NoSheet
    /\ s_plan = PlanTI
    /\ s_pc = "idle"
    /\ s_written = {}
    /\ s_filled = {}

(***************************************************************************)
(* save_multipart_upload: the upload is a run of bytes 0 .. size - 1, a    *)
(* chunk is <<offset, length>> of it, and the file at dest_path is the     *)
(* sequence of the chunks written to it.                                   *)
(***************************************************************************)
MAX_UPLOAD_BYTES == 15 * 1024 * 1024
CHUNK_SIZE == 1024 * 1024

ALLOWED_EXTENSIONS ==
    {<<".", "p", "d", "f">>, <<".", "d", "o", "c", "x">>, <<".", "t", "x", "t">>,
     <<".", "x", "l", "s", "x">>}

\* str.lower() on the letters the uploads use
LowerChar(c) ==
    CASE c = "P" -> "p" [] c = "D" -> "d" [] c = "F" -> "f" [] c = "E" -> "e"
      [] c = "X" -> "x" [] OTHER -> c

Lower(s) == [k \in 1..Len(s) |-> LowerChar(s[k])]

\* validate_extension(filename) does not raise
ExtensionAllowed(suffix) == Lower(suffix) \in ALLOWED_EXTENSIONS

\* the test of line 87 with >= for >
TooLargeAtLimit(size, max_bytes) == size >= max_bytes

\* line 87: size > max_bytes
TooLarge(size, max_bytes) == size > max_bytes

\* what upload_file.read(CHUNK_SIZE) returns at the given position
NextChunk(offset, total) == <<offset, Min(CHUNK_SIZE, total - offset)>>

NoChunk == <<0, 0>>
NoFile == [exists |-> FALSE, data |-> <<>>]

\* dest_path.unlink(missing_ok=True)
Unlink(file) == NoFile

\* the lengths of the uploads
UploadSizes ==
    {0, 1, CHUNK_SIZE, CHUNK_SIZE + 1, 2 * CHUNK_SIZE, MAX_UPLOAD_BYTES - 1,
     MAX_UPLOAD_BYTES, MAX_UPLOAD_BYTES + 1, MAX_UPLOAD_BYTES + CHUNK_SIZE}

\* the calls main.py makes: max_bytes is left at its default
UploadCalls ==
    [named : BOOLEAN,
     suffix : {<<".", "p", "d", "f">>, <<".", "P", "D", "F">>, <<".", "e", "x", "e">>, <<>>},
     size : UploadSizes,
     max_bytes : {MAX_UPLOAD_BYTES}]

UploadIdle ==
    /\ u_call = [named |-> FALSE, suffix |-> <<>>, size |-> 0, max_bytes |-> MAX_UPLOAD_BYTES]
    /\ u_pc = "idle"
    /\ u_size = 0
    /\ u_offset = 0
    /\ u_chunk = NoChunk
    /\ u_dest = NoFile
    /\ u_error = 0

PairIdle ==
    /\ w_pass = 0
    /\ w_first = <<>>
    /\ w_second = <<>>

(***************************************************************************)
(* Spec: one call of generate_loader_artifacts, from its entry to its end. *)
(***************************************************************************)
NoOutput == [agreement_text |-> Text(0, 0, 0), standards |-> <<>>,
             meta |-> TruncMeta(FALSE, EmptyDict)]

TruncIdle ==
    /\ t_agreement = Text(0, 0, 0)
    /\ t_standards = <<>>
    /\ t_called = FALSE
    /\ t_out = NoOutput

Init ==
    /\ \E a \in AgreementDocs, s \in StandardPathLists :
          run = [r \in Runs |-> IF r = 1 THEN NewRun(a, s) ELSE IdleRun]
    /\ dirs \in OlderDirs
    /\ files = EmptyDict
    /\ api_key \in BOOLEAN
    /\ CLIENT = FALSE
    /\ TruncIdle
    /\ SheetIdle
    /\ UploadIdle
    /\ PairIdle

Next ==
    \E r \in Runs :
        \/ ExtractAgreement(r)
        \/ ExtractStandard(r)
        \/ BuildPrompt(r)
        \/ EnterGenerate(r)
        \/ Invoke(r)
        \/ RespondOk(r)
        \/ RespondError(r)
        \/ Validate(r)
        \/ ValidateRepair(r)
        \/ CheckExcelOutputs(r)
        \/ Mkdir(r)
        \/ WriteLoader(r)
        \/ PickTemplate(r)
        \/ PlanCheck(r)
        \/ PlanCopy(r)
        \/ PlanSave(r)
        \/ WriteMeta(r)
        \/ Return(r)

Spec == Init /\ [][Next]_vars


(***************************************************************************)
(* SpecAlloc: NumRuns concurrent calls of generate_loader_artifacts that   *)
(* have validated their output and enter create_versioned_output_dir       *)
(* against the same OUTPUT_DIR.                                            *)
(***************************************************************************)
RECURSIVE Extracted(_)
\* standards after the extraction loop
Extracted(paths) ==
    IF paths = <<>> THEN <<>>
    ELSE <<[name |-> Head(paths).name, text |-> extract_text(Head(paths)).text]>>
             \o Extracted(Tail(paths))

\* the locals of a call whose only invocation returned `raw`, at line 294
AtMkdir(agreement_path, standard_paths, raw, usage) ==
    LET out == truncate_inputs(extract_text(agreement_path).text, Extracted(standard_paths))
    IN  [NewRun(agreement_path, standard_paths) EXCEPT
            !.pc = "mkdir",
            !.extract_calls = 1 + Len(standard_paths),
            !.agreement_text = out.agreement_text,
            !.standards = out.standards,
            !.trunc_meta = out.meta,
            !.user_prompt = build_user_prompt(agreement_path.name, out.agreement_text,
                                              out.standards),
            !.retries = FIRST_RETRIES,
            !.calls = 1,
            !.invocations = 1,
            !.raw_json = raw,
            !.usage = usage_to_dict(usage),
            !.loader = parse_and_validate_loader_json(raw).loader,
            !.i = 1]

AllocEntries ==
    {AtMkdir(a, <<StandardDocs[1]>>, raw, [kind |-> "none", fields |-> EmptyDict]) :
         a \in {d \in AgreementDocs : extract_text(d).ok},
         raw \in {RawOne, RawSecondWrong}}

InitAlloc ==
    /\ run \in [Runs -> AllocEntries]
    /\ dirs \in OlderDirs
    /\ files = EmptyDict
    /\ api_key = TRUE
    /\ CLIENT = TRUE
    /\ TruncIdle
    /\ SheetIdle
    /\ UploadIdle
    /\ PairIdle

NextAlloc ==
    \E r \in Runs :
        \/ Mkdir(r)
        \/ WriteLoader(r)
        \/ PickTemplate(r)
        \/ PlanCheck(r)
        \/ PlanCopy(r)
        \/ PlanSave(r)
        \/ WriteMeta(r)
        \/ Return(r)

SpecAlloc == InitAlloc /\ [][NextAlloc]_vars

(***************************************************************************)
(* SpecExhaust: create_versioned_output_dir against an OUTPUT_DIR in which *)
(* the candidates are used up.  One call scans the whole list from         *)
(* base_name on; or two concurrent calls have already found the first     *)
(* LAST_VERSION - 2 candidates taken and race for the last two.            *)
(***************************************************************************)
\* the directories base_name, base_name_v2, ... of the candidates i in idx
TakenDirs(base_name, idx) ==
    [d \in {Candidate(base_name, i) : i \in idx} |-> 0]

\* the locals inside the loop of create_versioned_output_dir before the mkdir
\* of candidate i: the i - 1 candidates before it raised FileExistsError
AtCandidate(entry, i) ==
    [entry EXCEPT
        !.i = i,
        !.tries = [j \in 1..(i - 1) |->
                       [name |-> Candidate(safe_agreement_base_name(entry.agreement_path), j),
                        free |-> FALSE]]]

ExhaustEntry == AtMkdir(CHOOSE d \in AgreementDocs : d.name = "a.txt", <<StandardDocs[1]>>, RawOne,
                        [kind |-> "none", fields |-> EmptyDict])

ExhaustBase == safe_agreement_base_name(ExhaustEntry.agreement_path)

InitExhaust ==
    /\ \/ /\ run = [r \in Runs |-> IF r = 1 THEN ExhaustEntry ELSE IdleRun]
          /\ dirs = TakenDirs(ExhaustBase, 1..LAST_VERSION)
       \/ /\ run = [r \in Runs |-> IF r \in {1, 2}
                                  THEN AtCandidate(ExhaustEntry, LAST_VERSION - 1)
                                  ELSE IdleRun]
          /\ dirs \in {TakenDirs(ExhaustBase, 1..(LAST_VERSION - 2) \cup extra) :
                           extra \in SUBSET {LAST_VERSION - 1, LAST_VERSION}}
    /\ files = EmptyDict
    /\ api_key = TRUE
    /\ CLIENT = TRUE
    /\ TruncIdle
    /\ SheetIdle
    /\ UploadIdle
    /\ PairIdle

SpecExhaust == InitExhaust /\ [][NextAlloc]_vars

(***************************************************************************)
(* Inputs of _truncate_inputs.                                             *)
(***************************************************************************)
AgreementTexts == {Text(0, 200, 0), Text(3, 60000, 2), Text(0, 70000, 1)}

StandardTexts ==
    {Text(0, 200, 0), Text(1, 5000, 1), Text(0, 60000, 0), Text(2, 70000, 0),
     Text(0, 0, 4)}

InitTrunc ==
    /\ t_agreement \in AgreementTexts
    /\ t_standards = <<>>
    /\ t_called = FALSE
    /\ t_out = NoOutput
    /\ run = [r \in Runs |-> IdleRun]
    /\ dirs = EmptyDict
    /\ files = EmptyDict
    /\ api_key = FALSE
    /\ CLIENT = FALSE
    /\ SheetIdle
    /\ UploadIdle
    /\ PairIdle

\* the caller appends one (filename, text) pair with a freely chosen text
AppendStandard ==
    /\ ~t_called
    /\ Len(t_standards) < MaxFree
    /\ Len(t_standards) < MaxStandards
    /\ \E text \in StandardTexts :
          t_standards' = Append(t_standards,
                                [name |-> Len(t_standards) + 1, text |-> text])
    /\ UNCHANGED <<t_agreement, t_called, t_out, pipeVars, sheetVars, uploadVars, pairVars>>

\* the caller appends one more pair carrying the same text as the last one
RepeatStandard ==
    /\ ~t_called
    /\ Len(t_standards) >= MaxFree
    /\ Len(t_standards) >= 1
    /\ Len(t_standards) < MaxStandards
    /\ t_standards' = Append(t_standards,
                             [name |-> Len(t_standards) + 1,
                              text |-> t_standards[Len(t_standards)].text])
    /\ UNCHANGED <<t_agreement, t_called, t_out, pipeVars, sheetVars, uploadVars, pairVars>>

\* the call _truncate_inputs(agreement_text, standards)
CallTruncateInputs ==
    /\ ~t_called
    /\ t_called' = TRUE
    /\ t_out' = truncate_inputs(t_agreement, t_standards)
    /\ UNCHANGED <<t_agreement, t_standards, pipeVars, sheetVars, uploadVars, pairVars>>

NextTrunc == AppendStandard \/ RepeatStandard \/ CallTruncateInputs

SpecTrunc == InitTrunc /\ [][NextTrunc]_vars

(***************************************************************************)
(* SpecSheet: one call of _generate_excel_from_template(template_path,     *)
(* dest_path, plan), statement by statement.                               *)
(***************************************************************************)
InitSheet ==
    /\ s_template \in SheetTemplates
    /\ s_plan \in SheetPlans
    /\ s_dest = NoSheet
    /\ s_ws = NoSheet
    /\ s_pc = "check"
    /\ s_written = {}
    /\ s_filled = {}
    /\ run = [r \in Runs |-> IdleRun]
    /\ dirs = EmptyDict
    /\ files = EmptyDict
    /\ api_key = FALSE
    /\ CLIENT = FALSE
    /\ TruncIdle
    /\ UploadIdle
    /\ PairIdle

\* lines 98-116: the filename checks
SheetCheck ==
    /\ s_pc = "check"
    /\ s_pc' = IF FilenameCheck(s_plan) # 0 THEN "rejected" ELSE "copy"
    /\ UNCHANGED <<s_template, s_dest, s_ws, s_plan, s_written, s_filled, pipeVars,
                   truncVars, uploadVars, pairVars>>

\* lines 118-119: shutil.copy(template_path, dest_path)
SheetCopy ==
    /\ s_pc = "copy"
    /\ s_dest' = s_template
    /\ s_pc' = "load"
    /\ UNCHANGED <<s_template, s_ws, s_plan, s_written, s_filled, pipeVars, truncVars,
                   uploadVars, pairVars>>

\* lines 121-123: wb = load_workbook(dest_path); ws = wb.active
SheetLoad ==
    /\ s_pc = "load"
    /\ s_ws' = s_dest
    /\ s_pc' = "partner"
    /\ UNCHANGED <<s_template, s_dest, s_plan, s_written, s_filled, pipeVars, truncVars,
                   uploadVars, pairVars>>

\* line 126: ws["C2"] = plan.partner_tadig
SheetPartner ==
    /\ s_pc = "partner"
    /\ s_ws' = SetValue(s_ws, <<"C", 2>>, Str(s_plan.partner_tadig))
    /\ s_written' = s_written \cup {<<"C", 2>>}
    /\ s_pc' = "mo"
    /\ UNCHANGED <<s_template, s_dest, s_plan, s_filled, pipeVars, truncVars, uploadVars, pairVars>>

\* line 129: the SMS-MO row, always
SheetWriteMO ==
    /\ s_pc = "mo"
    /\ s_ws' = write_sms_row(s_ws, SMS_MO_ROW, s_plan.sms_mo_rate, s_plan.currency,
                             s_plan.is_discount, Highlight)
    /\ s_written' = s_written \cup RowValueCells(SMS_MO_ROW)
    /\ s_filled' = s_filled \cup RowFillCells(SMS_MO_ROW)
    /\ s_pc' = "mt"
    /\ UNCHANGED <<s_template, s_dest, s_plan, pipeVars, truncVars, uploadVars, pairVars>>

\* lines 132-133: the SMS-MT row, when a rate is given
SheetWriteMT ==
    /\ s_pc = "mt"
    /\ IF WritesMT(s_plan)
       THEN /\ s_ws' = write_sms_row(s_ws, SMS_MT_ROW, s_plan.sms_mt_rate, s_plan.currency,
                                     s_plan.is_discount, Highlight)
            /\ s_written' = s_written \cup RowValueCells(SMS_MT_ROW)
            /\ s_filled' = s_filled \cup RowFillCells(SMS_MT_ROW)
       ELSE UNCHANGED <<s_ws, s_written, s_filled>>
    /\ s_pc' = "save"
    /\ UNCHANGED <<s_template, s_dest, s_plan, pipeVars, truncVars, uploadVars, pairVars>>

\* line 135: wb.save(dest_path)
SheetSave ==
    /\ s_pc = "save"
    /\ s_dest' = s_ws
    /\ s_pc' = "done"
    /\ UNCHANGED <<s_template, s_ws, s_plan, s_written, s_filled, pipeVars, truncVars,
                   uploadVars, pairVars>>

NextSheet ==
    \/ SheetCheck
    \/ SheetCopy
    \/ SheetLoad
    \/ SheetPartner
    \/ SheetWriteMO
    \/ SheetWriteMT
    \/ SheetSave

SpecSheet == InitSheet /\ [][NextSheet]_vars

(***************************************************************************)
(* SpecUpload: one call of save_multipart_upload.  Opening the             *)
(* destination, reading a chunk and writing a chunk may each raise an      *)
(* OSError; a write that raises may have written a part of the chunk.      *)
(***************************************************************************)
InitUpload ==
    /\ u_call \in UploadCalls
    /\ u_pc = "check"
    /\ u_size = 0
    /\ u_offset = 0
    /\ u_chunk = NoChunk
    /\ u_dest = NoFile
    /\ u_error = 0
    /\ run = [r \in Runs |-> IdleRun]
    /\ dirs = EmptyDict
    /\ files = EmptyDict
    /\ api_key = FALSE
    /\ CLIENT = FALSE
    /\ TruncIdle
    /\ SheetIdle
    /\ PairIdle

\* lines 68-77: the filename and its extension are checked before anything
\* is created
UploadValidate ==
    /\ u_pc = "check"
    /\ IF ~u_call.named \/ ~ExtensionAllowed(u_call.suffix)
       THEN u_pc' = "failed" /\ u_error' = 400
       ELSE u_pc' = "open" /\ u_error' = 0
    /\ UNCHANGED <<u_call, u_size, u_offset, u_chunk, u_dest, pipeVars, truncVars,
                   sheetVars, pairVars>>

\* line 81: dest_path.open("wb") creates the file empty, or raises
UploadOpen ==
    /\ u_pc = "open"
    /\ \/ /\ u_dest' = [exists |-> TRUE, data |-> <<>>]
          /\ u_pc' = "read"
          /\ u_error' = 0
       \/ /\ u_dest' = u_dest
          /\ u_pc' = "except"
          /\ u_error' = 500
    /\ UNCHANGED <<u_call, u_size, u_offset, u_chunk, pipeVars, truncVars, sheetVars, pairVars>>

\* lines 83-91: read a chunk; leave the loop at the end of the upload; count
\* the chunk and raise 413 when the count passes max_bytes
UploadRead ==
    /\ u_pc = "read"
    /\ \/ LET chunk == NextChunk(u_offset, u_call.size)
              size == u_size + chunk[2]
          IN  /\ u_chunk' = chunk
              /\ u_offset' = u_offset + chunk[2]
              /\ IF chunk[2] = 0
                 THEN u_size' = u_size /\ u_pc' = "after" /\ u_error' = 0
                 ELSE /\ u_size' = size
                      /\ IF TooLarge(size, u_call.max_bytes)
                         THEN u_pc' = "except" /\ u_error' = 413
                         ELSE u_pc' = "write" /\ u_error' = 0
       \/ /\ u_pc' = "except"
          /\ u_error' = 500
          /\ UNCHANGED <<u_chunk, u_offset, u_size>>
    /\ UNCHANGED <<u_call, u_dest, pipeVars, truncVars, sheetVars, pairVars>>

\* line 92: f.write(chunk)
UploadWrite ==
    /\ u_pc = "write"
    /\ \/ /\ u_dest' = [u_dest EXCEPT !.data = Append(@, u_chunk)]
          /\ u_pc' = "read"
          /\ u_error' = 0
       \/ /\ \E part \in {0, u_chunk[2] - 1} :
                u_dest' = IF part = 0 THEN u_dest
                          ELSE [u_dest EXCEPT !.data = Append(@, <<u_chunk[1], part>>)]
          /\ u_pc' = "except"
          /\ u_error' = 500
    /\ UNCHANGED <<u_call, u_size, u_offset, u_chunk, pipeVars, truncVars, sheetVars, pairVars>>

\* lines 93-102: both except clauses unlink the file if it exists and raise;
\* the finally clause closes the upload
UploadCleanup ==
    /\ u_pc = "except"
    /\ u_dest' = IF u_dest.exists THEN Unlink(u_dest) ELSE u_dest
    /\ u_pc' = "failed"
    /\ UNCHANGED <<u_call, u_size, u_offset, u_chunk, u_error, pipeVars, truncVars,
                   sheetVars, pairVars>>

\* lines 101-108: the upload is closed; an empty file is unlinked and refused
UploadFinish ==
    /\ u_pc = "after"
    /\ IF u_size = 0
       THEN u_dest' = Unlink(u_dest) /\ u_pc' = "failed" /\ u_error' = 400
       ELSE u_dest' = u_dest /\ u_pc' = "done" /\ u_error' = 0
    /\ UNCHANGED <<u_call, u_size, u_offset, u_chunk, pipeVars, truncVars, sheetVars, pairVars>>

NextUpload ==
    \/ UploadValidate
    \/ UploadOpen
    \/ UploadRead
    \/ UploadWrite
    \/ UploadCleanup
    \/ UploadFinish

SpecUpload == InitUpload /\ [][NextUpload]_vars

(***************************************************************************)
(* SpecPair: generate_loader_artifacts called twice on the same documents, *)
(* each call starting from the same OUTPUT_DIR and a fresh process.  The   *)
(* external model answers the second call as it answered the first, with   *)
(* the same content or the same exception at every invocation, but with    *)
(* any usage.  Every state a call goes through is recorded.                *)
(***************************************************************************)
\* what a call can see and change
Snap == [run |-> run[1], dirs |-> dirs, files |-> files, CLIENT |-> CLIENT]

\* the answers of the external model the first call is checked with
PairRaws == {RawNotJson, RawEmpty, RawOne, RawTwin, RawSecondWrong}
PairUsages == {None, Dict([k \in TokenKeys |-> 1])}
PairExceptions == {"APITimeoutError"}

Recorded == IF w_pass = 1 THEN w_first[Len(w_first)] = Snap
                          ELSE w_second[Len(w_second)] = Snap

\* the answer to the invocation that is awaited, as the step left it
Answer(rec) ==
    [outcomes |-> rec.outcomes, last_error |-> rec.last_error,
     raw_json |-> rec.raw_json, raw_json2 |-> rec.raw_json2]

InitPair ==
    /\ run = [r \in Runs |->
                 IF r = 1
                 THEN NewRun(CHOOSE d \in AgreementDocs : d.name = "a.txt",
                             <<StandardDocs[1]>>)
                 ELSE IdleRun]
    /\ dirs \in {EmptyDict, [d \in {<<"a">>} |-> 0]}
    /\ files = EmptyDict
    /\ api_key = TRUE
    /\ CLIENT = FALSE
    /\ w_pass = 1
    /\ w_first = <<[run |-> run[1], dirs |-> dirs, files |-> files, CLIENT |-> CLIENT]>>
    /\ w_second = <<>>
    /\ TruncIdle
    /\ SheetIdle
    /\ UploadIdle

\* one step of the running call; the answer to an awaited invocation is one of
\* the pair's answers in the first call and the first call's answer in the second
PairStep ==
    /\ w_pass \in {1, 2}
    /\ Recorded
    /\ Next
    /\ (w_pass = 1 /\ run[1].pc = "await") =>
          /\ run'[1].raw_json \in PairRaws \cup {NoRaw}
          /\ run'[1].raw_json2 \in PairRaws \cup {NoRaw}
          /\ run'[1].usage \in PairUsages
          /\ run'[1].usage2 \in PairUsages
          /\ run'[1].last_error.class \in PairExceptions \cup {""}
    /\ (w_pass = 2 /\ run[1].pc = "await" /\ Len(w_second) < Len(w_first)) =>
          Answer(run'[1]) = Answer(w_first[Len(w_second) + 1].run)

\* the state the step led to is added to the record of the running call
PairRecord ==
    /\ w_pass \in {1, 2}
    /\ ~Recorded
    /\ IF w_pass = 1
       THEN w_first' = Append(w_first, Snap) /\ w_second' = w_second
       ELSE w_second' = Append(w_second, Snap) /\ w_first' = w_first
    /\ UNCHANGED <<w_pass, pipeVars, truncVars, sheetVars, uploadVars>>

\* the first call has ended: the second starts from where the first started
PairRestart ==
    /\ w_pass = 1
    /\ Recorded
    /\ run[1].pc \in {"done", "failed"}
    /\ w_pass' = 2
    /\ run' = [run EXCEPT ![1] = w_first[1].run]
    /\ dirs' = w_first[1].dirs
    /\ files' = w_first[1].files
    /\ CLIENT' = w_first[1].CLIENT
    /\ w_second' = <<w_first[1]>>
    /\ UNCHANGED <<w_first, api_key, truncVars, sheetVars, uploadVars>>

NextPair ==
    \/ PairStep
    \/ PairRecord
    \/ PairRestart

SpecPair == InitPair /\ [][NextPair]_vars

(***************************************************************************)
(* C1: whenever at least one standard is present and the normalized total  *)
(* exceeds MAX_TOTAL_CHARS, the returned agreement text plus the returned  *)
(* standard texts are at most MAX_TOTAL_CHARS characters long.             *)
(***************************************************************************)
RECURSIVE NormalizedSum(_)
NormalizedSum(standards) ==
    IF standards = <<>> THEN 0
    ELSE TextLen(normalize_text(Head(standards).text)) + NormalizedSum(Tail(standards))

OverCeiling ==
    /\ t_standards # <<>>
    /\ TextLen(normalize_text(t_agreement)) + NormalizedSum(t_standards) > MAX_TOTAL_CHARS

ReturnedTotal == TextLen(t_out.agreement_text) + SumLen(t_out.standards)

C1_TotalWithinCeiling ==
    (t_called /\ OverCeiling) => ReturnedTotal <= MAX_TOTAL_CHARS

(***************************************************************************)
(* C2: under concurrent callers of create_versioned_output_dir, every      *)
(* directory a call returned was created by that call and by no other, and *)
(* no two calls hold the same output directory.                            *)
(***************************************************************************)
Allocated(r) == run[r].output_dir # <<>>

C2_ExclusiveOutputDir ==
    /\ \A r \in Runs :
          Allocated(r) =>
              /\ run[r].output_dir \in DOMAIN dirs
              /\ dirs[run[r].output_dir] = r
    /\ \A r1, r2 \in Runs :
          (r1 # r2 /\ Allocated(r1) /\ Allocated(r2)) =>
              run[r1].output_dir # run[r2].output_dir

\* two calls with the same base name both hold a directory, one of them
\* after finding the other's candidate taken
C2_Witness ==
    \E r1, r2 \in Runs :
        /\ r1 # r2
        /\ Allocated(r1) /\ Allocated(r2)
        /\ safe_agreement_base_name(run[r1].agreement_path)
               = safe_agreement_base_name(run[r2].agreement_path)
        /\ dirs[run[r1].output_dir] = r1
        /\ run[r2].i > run[r1].i


(***************************************************************************)
(* C3: _generate_excel_from_template lets a plan through only if parsing   *)
(* its filename with FILENAME_PATTERN recovers the plan's client_tadig,    *)
(* partner_tadig, direction, start_date and end_date (dashes stripped).    *)
(***************************************************************************)
Encodes(plan) ==
    LET match == FILENAME_PATTERN(plan.filename)
    IN  /\ match.matched
        /\ match.client = plan.client_tadig
        /\ match.partner = plan.partner_tadig
        /\ match.direction = plan.direction
        /\ match.start = Replace(plan.start_date, "-")
        /\ match.end = Replace(plan.end_date, "-")

C3_RejectsEveryMismatch ==
    \A r \in Runs :
        run[r].pc \in {"plan_copy", "plan_save"} => Encodes(CurrentPlan(r))

(***************************************************************************)
(* C4: when _generate_excel_from_template rejects a plan for its filename, *)
(* nothing was copied or written for that plan: the template was read only *)
(* for the plans before it, and a file at its destination, if any, is the  *)
(* spreadsheet of an earlier plan.                                         *)
(***************************************************************************)
FilenameRejected(r) ==
    /\ run[r].pc = "failed"
    /\ run[r].error.message = "filename does not match the plan"

C4_RejectedBeforeCopy ==
    \A r \in Runs :
        FilenameRejected(r) =>
            /\ run[r].template_reads = run[r].plan_i - 1
            /\ Len(run[r].loader_excel_paths) = run[r].plan_i - 1
            /\ \A p \in DOMAIN files :
                  (p[1] = run[r].output_dir /\ p[2] = CurrentPlan(r).filename) =>
                      /\ files[p].kind = "xlsx"
                      /\ \E k \in 1..(run[r].plan_i - 1) :
                            /\ run[r].loader_excel_paths[k] = p
                            /\ files[p].body.plan = {run[r].loader.excel_outputs[k]}

\* the second plan of a run is rejected after the first was templated
C4_Witness ==
    \E r \in Runs :
        /\ FilenameRejected(r)
        /\ run[r].plan_i = 2
        /\ run[r].template_reads = 1
        /\ <<run[r].output_dir, CurrentPlan(r).filename>> \notin DOMAIN files

(***************************************************************************)
(* C5: a run calls generate_json_object at most twice, the second time     *)
(* only after the first output failed validation and with retries = 1, so  *)
(* it sends at most 3 + 2 = 5 requests to the external model; and every    *)
(* run ends, returning its response or raising an error.                   *)
(***************************************************************************)
InCall(r) == run[r].pc \in {"invoke", "await"}

Ended(r) == run[r].pc \in {"idle", "done", "failed"}

C5_Bounded ==
    \A r \in Runs :
        /\ run[r].calls <= 2
        /\ run[r].invocations <= 5
        /\ (InCall(r) /\ run[r].calls = 1) => run[r].retries = 2
        /\ (InCall(r) /\ run[r].calls = 2) => run[r].retries = 1
        /\ run[r].calls = 2 =>
              /\ run[r].parse_error # NoError
              /\ run[r].user_prompt.kind = "fix"

\* the longest excel_outputs the external model returns here
PlanBound ==
    CHOOSE n \in 0..9 :
        /\ \E raw \in Raws : Len(raw.excel_outputs) = n
        /\ \A raw \in Raws : Len(raw.excel_outputs) <= n

\* steps of one generate_json_object call and the validation after it
CallSteps(retries) == 1 + 2 * (retries + 1) + 1

\* steps from the first mkdir to the end, for p plans
OutputSteps(p) == LAST_VERSION + 2 + 3 * p + 2

\* an upper bound on the steps a run still takes
Rank(rec) ==
    LET repair == IF rec.calls <= 1 THEN CallSteps(REPAIR_RETRIES) ELSE 0
        tail == 1 + OutputSteps(PlanBound)
        plans == Len(rec.loader.excel_outputs)
    IN  CASE rec.pc = "extract_agreement" ->
                 Len(rec.standard_paths) + 2 + CallSteps(FIRST_RETRIES) + repair + tail
          [] rec.pc = "extract_standard" ->
                 (Len(rec.standard_paths) - Len(rec.standards)) + 1
                     + CallSteps(FIRST_RETRIES) + repair + tail
          [] rec.pc = "call" ->
                 CallSteps(rec.retries) + (IF rec.calls = 0 THEN repair ELSE 0) + tail
          [] rec.pc = "invoke" ->
                 2 * (rec.retries - rec.attempt + 1) + 1 + repair + tail
          [] rec.pc = "await" ->
                 2 * (rec.retries - rec.attempt) + 2 + repair + tail
          [] rec.pc = "validate" -> 1 + repair + tail
          [] rec.pc = "validate_repair" -> 1 + tail
          [] rec.pc = "check_excel" -> 1 + OutputSteps(plans)
          [] rec.pc = "mkdir" -> OutputSteps(plans) - (rec.i - 1)
          [] rec.pc = "write_loader" -> 2 + 3 * plans + 2
          [] rec.pc = "pick_template" -> 1 + 3 * plans + 2
          [] rec.pc = "plan_check" -> 3 * (plans - rec.plan_i + 1) + 2
          [] rec.pc = "plan_copy" -> 3 * (plans - rec.plan_i + 1) + 1
          [] rec.pc = "plan_save" -> 3 * (plans - rec.plan_i + 1)
          [] rec.pc = "write_meta" -> 2
          [] rec.pc = "return" -> 1
          [] OTHER -> 0

\* the positions a run acts from: each has an action guarded by the position
\* alone (at extract_standard, ExtractStandard or BuildPrompt)
Acting ==
    {"extract_agreement", "extract_standard", "call", "invoke", "await",
     "validate", "validate_repair", "check_excel", "mkdir", "write_loader",
     "pick_template", "plan_check", "plan_copy", "plan_save", "write_meta",
     "return"}

\* a run that has not ended stands where it can take a step
C5_NeverStuck ==
    \A r \in Runs :
        \/ Ended(r)
        \/ /\ run[r].pc \in Acting
           /\ Len(run[r].standards) <= Len(run[r].standard_paths)
           /\ run[r].pc = "mkdir" => run[r].i \in 1..LAST_VERSION
           /\ run[r].pc \in {"plan_check", "plan_copy", "plan_save"} =>
                  run[r].plan_i \in 1..Len(run[r].loader.excel_outputs)

\* every step of a run lowers its rank, which is never negative
C5_RankDecreases ==
    \A r \in Runs :
        /\ Rank(run[r]) >= 0
        /\ run'[r] # run[r] => Rank(run'[r]) < Rank(run[r])

C5_AtMostOneRepair ==
    /\ [](C5_Bounded /\ C5_NeverStuck)
    /\ [][C5_RankDecreases]_vars

\* a run that used all five requests and returned its response
C5_Witness ==
    \E r \in Runs :
        run[r].pc = "done" /\ run[r].calls = 2 /\ run[r].invocations = 5

(***************************************************************************)
(* C6: after a repair that validates, the run goes on with the second raw  *)
(* output only: the LoaderOutput, loader.json, the templated plans and the *)
(* plans of the journal are those of the second output.                    *)
(***************************************************************************)
Repaired(r) == run[r].calls = 2 /\ ~run[r].loader.isNone

InDir(r, name) == <<run[r].output_dir, name>>

C6_UsesSecondOutputOnly ==
    \A r \in Runs :
        Repaired(r) =>
            /\ run[r].parse_error[2] # run[r].raw_json2.text
            /\ run[r].loader = parse_and_validate_loader_json(run[r].raw_json2).loader
            /\ run[r].raw_json = run[r].raw_json2
            /\ InDir(r, LoaderJson) \in DOMAIN files =>
                  files[InDir(r, LoaderJson)].body = ParsedJson(run[r].raw_json2)
            /\ \A k \in 1..Len(run[r].loader_excel_paths) :
                  /\ run[r].loader_excel_paths[k] =
                         InDir(r, run[r].raw_json2.excel_outputs[k].filename)
                  /\ files[run[r].loader_excel_paths[k]].body.plan \subseteq
                         {run[r].raw_json2.excel_outputs[j] :
                              j \in 1..Len(run[r].raw_json2.excel_outputs)}
            /\ InDir(r, MetaJson) \in DOMAIN files =>
                  files[InDir(r, MetaJson)].body.excel_plans
                      = run[r].raw_json2.excel_outputs

\* a repaired run that returned its response, its first output being valid
\* JSON of the wrong shape
C6_Witness ==
    \E r \in Runs :
        /\ Repaired(r)
        /\ run[r].pc = "done"
        /\ run[r].parse_error[1] = "JSON did not match schema"
        /\ InDir(r, LoaderJson) \in DOMAIN files

(***************************************************************************)
(* C7: whenever a repair round-trip was made and the run wrote its         *)
(* journal, meta.openai_usage holds an entry for the first call and an     *)
(* entry for the repair call, whatever usage the two calls returned.       *)
(***************************************************************************)
C7_BothAttemptsRecorded ==
    \A r \in Runs :
        (run[r].calls = 2 /\ InDir(r, MetaJson) \in DOMAIN files) =>
            LET u == files[InDir(r, MetaJson)].body.openai_usage
            IN  /\ ~u.isNone
                /\ {"first_call", "retry_call"} \subseteq DOMAIN u.entries

(***************************************************************************)
(* C8: if the first raw output and the repair raw output both fail         *)
(* validation, the run fails with status 502 and an error that carries the *)
(* repair's validation error and the first validation error; it made two   *)
(* calls of generate_json_object and allocated no output directory.        *)
(***************************************************************************)
BothInvalid(r) ==
    /\ run[r].calls = 2
    /\ run[r].raw_json2 # NoRaw
    /\ ~parse_and_validate_loader_json(run[r].raw_json2).ok
    /\ run[r].pc # "validate_repair"

C8_RepairFailureIsFatal ==
    \A r \in Runs :
        BothInvalid(r) =>
            /\ run[r].pc = "failed"
            /\ run[r].error.status = 502
            /\ run[r].error.last_error
                   = parse_and_validate_loader_json(run[r].raw_json2).error
            /\ run[r].error.first_error
                   = parse_and_validate_loader_json(run[r].raw_json).error
            /\ run[r].error.first_error # NoError
            /\ run[r].calls = 2
            /\ run[r].inflight = 0
            /\ run[r].output_dir = <<>>
            /\ \A d \in DOMAIN dirs : dirs[d] # r
            /\ files = EmptyDict

\* both outputs were invalid, for different reasons
C8_Witness ==
    \E r \in Runs :
        /\ BothInvalid(r)
        /\ run[r].error.first_error[1] = "Invalid JSON"
        /\ run[r].error.last_error[1] = "JSON did not match schema"

(***************************************************************************)
(* C9: a directory is allocated only for a validated LoaderOutput with at  *)
(* least one excel output; a run whose validated output has no excel       *)
(* outputs fails with the no-excel-outputs fault (422), creates no         *)
(* directory and writes no file.                                           *)
(***************************************************************************)
NoExcelFault(r) ==
    /\ run[r].pc = "failed"
    /\ run[r].error.status = 422
    /\ run[r].error.message = "No excel_outputs were returned"

C9_NoDirectoryWithoutPlans ==
    \A r \in Runs :
        /\ (run[r].pc = "mkdir" \/ Allocated(r) \/ \E d \in DOMAIN dirs : dirs[d] = r) =>
              /\ ~run[r].loader.isNone
              /\ run[r].loader.excel_outputs # <<>>
        /\ (~run[r].loader.isNone /\ run[r].loader.excel_outputs = <<>>
                /\ run[r].pc # "check_excel") =>
              /\ NoExcelFault(r)
              /\ ~Allocated(r)
              /\ \A d \in DOMAIN dirs : dirs[d] # r
              /\ files = EmptyDict

\* the repaired output of a run validated and had no excel outputs
C9_Witness ==
    \E r \in Runs : NoExcelFault(r) /\ run[r].calls = 2 /\ ~run[r].loader.isNone

(***************************************************************************)
(* C10: generate_json_object with retry budget r sends at most r + 1       *)
(* requests, one at a time; a success is the last request of the call and  *)
(* the call returns on it; the call raises only after r + 1 failed         *)
(* requests, so every failed request but the (r+1)-th is followed by       *)
(* another.                                                                *)
(***************************************************************************)
GenerationFailed(r) ==
    /\ run[r].pc = "failed"
    /\ run[r].error.message \in
           {"OpenAI request timed out.", "OpenAI API error", "OpenAI call failed"}

C10_SequentialBoundedRetries ==
    \A r \in Runs :
        LET n == Len(run[r].outcomes)
        IN  /\ run[r].inflight \in {0, 1}
            /\ run[r].inflight = 1 <=> run[r].pc = "await"
            /\ n + run[r].inflight <= run[r].retries + 1
            /\ \A k \in 1..(n - 1) : run[r].outcomes[k] # "ok"
            /\ run[r].pc \in {"validate", "validate_repair"} =>
                  /\ n >= 1
                  /\ run[r].outcomes[n] = "ok"
            /\ run[r].pc \in {"invoke", "await"} =>
                  /\ \A k \in 1..n : run[r].outcomes[k] # "ok"
                  /\ run[r].attempt = n
            /\ GenerationFailed(r) =>
                  /\ n = run[r].retries + 1
                  /\ \A k \in 1..n : run[r].outcomes[k] # "ok"

\* the first call returned on its third request, after two failed ones
C10_Witness ==
    \E r \in Runs :
        /\ run[r].pc = "validate"
        /\ run[r].retries = 2
        /\ Len(run[r].outcomes) = 3

(***************************************************************************)
(* C11: when every request of a generate_json_object call failed, the      *)
(* HTTPException raised is the one of the last failure: 504 for a timeout, *)
(* 502 "API error" for another OpenAIError, 502 "call failed" for any      *)
(* other exception, with that exception as its cause, whatever the         *)
(* earlier failures were; and a call that returned returned the content of *)
(* a request that succeeded.                                               *)
(***************************************************************************)
LastOutcome(r) == run[r].outcomes[Len(run[r].outcomes)]

C11_LastFailureClassified ==
    \A r \in Runs :
        /\ GenerationFailed(r) =>
              /\ run[r].outcomes # <<>>
              /\ run[r].error.cause = LastOutcome(r)
              /\ run[r].last_error.class = LastOutcome(r)
              /\ LastOutcome(r) = "APITimeoutError" =>
                    /\ run[r].error.status = 504
                    /\ run[r].error.message = "OpenAI request timed out."
              /\ LastOutcome(r) = "RateLimitError" =>
                    /\ run[r].error.status = 502
                    /\ run[r].error.message = "OpenAI API error"
              /\ LastOutcome(r) = "ConnectError" =>
                    /\ run[r].error.status = 502
                    /\ run[r].error.message = "OpenAI call failed"
        /\ run[r].pc \in {"validate", "validate_repair"} =>
              /\ run[r].outcomes # <<>>
              /\ LastOutcome(r) = "ok"
              /\ run[r].error = NoDetail

\* three failures of three kinds, the last one a timeout
C11_Witness ==
    \E r \in Runs :
        /\ GenerationFailed(r)
        /\ run[r].outcomes = <<"ConnectError", "RateLimitError", "APITimeoutError">>
        /\ run[r].error.status = 504

(***************************************************************************)
(* C12: when extract_text fails for the agreement or for a standard, the   *)
(* run ends at once with status 422: extract_text was called once for each *)
(* document up to the failing one and for none after it, generate_json_    *)
(* object was not called and no output directory was allocated.            *)
(***************************************************************************)
ExtractionFailed(r) ==
    /\ run[r].pc = "failed"
    /\ run[r].calls = 0
    /\ run[r].user_prompt = NoPrompt
    /\ run[r].error.cause \in {"TextExtractionError", "FileNotDecryptedError"}

\* the document whose extraction ended the run
FailedDocument(r) ==
    IF run[r].extract_calls = 1 THEN run[r].agreement_path
    ELSE run[r].standard_paths[run[r].extract_calls - 1]

C12_ExtractionFailureAborts ==
    \A r \in Runs :
        ExtractionFailed(r) =>
            /\ run[r].error.status = 422
            /\ run[r].extract_calls = 1 + Len(run[r].standards)
                   + (IF extract_text(run[r].agreement_path).ok THEN 1 ELSE 0)
            /\ ~extract_text(FailedDocument(r)).ok
            /\ run[r].invocations = 0
            /\ run[r].raw_json = NoRaw
            /\ run[r].output_dir = <<>>
            /\ \A d \in DOMAIN dirs : dirs[d] # r
            /\ \A f \in DOMAIN files : dirs[f[1]] # r

(***************************************************************************)
(* C13: the plans of excel_outputs are templated one by one in list order  *)
(* from the first standard document.  When plan k is rejected for its      *)
(* filename, the run directory holds loader.json and the spreadsheets      *)
(* written for plans 1..k-1 and nothing else: nothing is rolled back,      *)
(* nothing is written for plans k..n, there is no meta.json, and the call  *)
(* returns no response.                                                    *)
(***************************************************************************)
\* the filenames under the output directory of run r
FilesOf(r) == {p[2] : p \in {q \in DOMAIN files : q[1] = run[r].output_dir}}

\* the plans templated so far are the first `done` plans, in list order, each
\* from the first standard; a filename holds the last plan written to it
TemplatedInOrder(r, done) ==
    LET plans == run[r].loader.excel_outputs
    IN  /\ done <= Len(plans)
        /\ run[r].loader_excel_paths = [j \in 1..done |-> InDir(r, plans[j].filename)]
        /\ \A j \in 1..done :
              /\ InDir(r, plans[j].filename) \in DOMAIN files
              /\ LET f == files[InDir(r, plans[j].filename)]
                     last == CHOOSE m \in j..done :
                                 /\ plans[m].filename = plans[j].filename
                                 /\ \A n \in (m + 1)..done :
                                       plans[n].filename # plans[j].filename
                 IN  /\ f.kind \in {"xlsx", "copy"}
                     /\ f.kind = "copy" => run[r].pc = "plan_save"
                     /\ f.body.template = run[r].standard_paths[1].name
                     /\ f.kind = "xlsx" => f.body.plan = {plans[last]}

C13_NoRollbackNoContinuation ==
    \A r \in Runs :
        /\ run[r].pc \in {"plan_check", "plan_copy"} =>
              TemplatedInOrder(r, run[r].plan_i - 1)
        /\ FilenameRejected(r) =>
              /\ TemplatedInOrder(r, run[r].plan_i - 1)
              /\ run[r].template_reads = run[r].plan_i - 1
              /\ FilesOf(r) = {LoaderJson} \cup
                     {run[r].loader.excel_outputs[j].filename : j \in 1..(run[r].plan_i - 1)}
              /\ \A j \in 1..(run[r].plan_i - 1) :
                     files[InDir(r, run[r].loader.excel_outputs[j].filename)].kind = "xlsx"
              /\ run[r].response = NoResponse

\* the third plan is rejected; the first two were written to one filename
C13_Witness ==
    \E r \in Runs :
        /\ FilenameRejected(r)
        /\ run[r].plan_i = 3
        /\ Len(run[r].loader_excel_paths) = 2
        /\ files[InDir(r, PlanTO.filename)].body.plan = {PlanTOAgain}
        /\ InDir(r, MetaJson) \notin DOMAIN files

(***************************************************************************)
(* C14: a call of generate_loader_artifacts with standard_paths = [] never *)
(* returns a response, whatever the external model returns: it templates   *)
(* no plan, writes no meta.json and, once it has ended, has failed; if its *)
(* validated output had at least one excel output, the failure is the      *)
(* HTTPException 400 for the missing template.                             *)
(***************************************************************************)
NoStandards(r) == run[r].pc # "idle" /\ run[r].standard_paths = <<>>

C14_NoTemplateNoManifest ==
    \A r \in Runs :
        NoStandards(r) =>
            /\ run[r].response = NoResponse
            /\ run[r].pc \notin {"plan_check", "plan_copy", "plan_save",
                                 "write_meta", "return", "done"}
            /\ run[r].loader_excel_paths = <<>>
            /\ run[r].template_reads = 0
            /\ InDir(r, MetaJson) \notin DOMAIN files
            /\ (run[r].pc = "failed" /\ run[r].loader.excel_outputs # <<>>) =>
                   /\ run[r].error.status = 400
                   /\ run[r].error.message = "No standard template available"

\* the run had two plans and no standard: it failed after loader.json was written
C14_Witness ==
    \E r \in Runs :
        /\ NoStandards(r)
        /\ run[r].pc = "failed"
        /\ run[r].error.status = 400
        /\ Len(run[r].loader.excel_outputs) = 2
        /\ InDir(r, LoaderJson) \in DOMAIN files

(***************************************************************************)
(* C15: when the normalized texts, each cut to MAX_CHARS_PER_FILE, sum to  *)
(* at most MAX_TOTAL_CHARS, _truncate_inputs returns exactly those texts:  *)
(* the agreement and every standard equal their normalized input cut to    *)
(* MAX_CHARS_PER_FILE, and a flag is true iff the normalized input was     *)
(* longer than MAX_CHARS_PER_FILE.                                         *)
(***************************************************************************)
\* the first MAX_CHARS_PER_FILE characters of the normalized text
PerFileCapped(text) == Slice(normalize_text(text), MAX_CHARS_PER_FILE)

CutByCap(text) == TextLen(normalize_text(text)) > MAX_CHARS_PER_FILE

RECURSIVE CappedSum(_)
CappedSum(standards) ==
    IF standards = <<>> THEN 0
    ELSE TextLen(PerFileCapped(Head(standards).text)) + CappedSum(Tail(standards))

CapSuffices ==
    TextLen(PerFileCapped(t_agreement)) + CappedSum(t_standards) <= MAX_TOTAL_CHARS

C15_NoRedundantTruncation ==
    (t_called /\ CapSuffices) =>
        /\ t_out.agreement_text = PerFileCapped(t_agreement)
        /\ t_out.meta.truncated.agreement = CutByCap(t_agreement)
        /\ Len(t_out.standards) = Len(t_standards)
        /\ DOMAIN t_out.meta.truncated.standards =
               {t_standards[i].name : i \in 1..Len(t_standards)}
        /\ \A i \in 1..Len(t_standards) :
              /\ t_out.standards[i].name = t_standards[i].name
              /\ t_out.standards[i].text = PerFileCapped(t_standards[i].text)
              /\ t_out.meta.truncated.standards[t_standards[i].name]
                     = CutByCap(t_standards[i].text)

\* the cap sufficed although one returned standard is longer than an equal
\* share of the total budget, and another one was cut by the cap
C15_Witness ==
    /\ t_called
    /\ CapSuffices
    /\ t_standards # <<>>
    /\ \E i \in 1..Len(t_standards) :
          TextLen(t_out.standards[i].text)
              > (MAX_TOTAL_CHARS - TextLen(t_out.agreement_text)) \div Len(t_standards)
    /\ \E i \in 1..Len(t_standards) : CutByCap(t_standards[i].text)

(***************************************************************************)
(* C16: create_versioned_output_dir tries base_name, base_name_v2,         *)
(* base_name_v3, ... in that order, one mkdir each; every candidate it     *)
(* passed over existed when it was tried, and the directory it returns is  *)
(* the first candidate that did not exist when tried, created by this      *)
(* call and by nothing else.                                               *)
(***************************************************************************)
\* the j-th name of the series base_name, base_name_v2, base_name_v3, ...
VersionedName(base_name, j) ==
    IF j = 1 THEN base_name
    ELSE base_name \o <<"_", "v">> \o Decimal(j)

C16_FirstFreeCandidate ==
    \A r \in Runs :
        LET base_name == safe_agreement_base_name(run[r].agreement_path)
            n == Len(run[r].tries)
        IN  /\ \A j \in 1..n : run[r].tries[j].name = VersionedName(base_name, j)
            /\ \A j \in 1..(n - 1) : ~run[r].tries[j].free
            /\ run[r].pc = "mkdir" =>
                  /\ n = run[r].i - 1
                  /\ \A j \in 1..n : ~run[r].tries[j].free
                  /\ ~Allocated(r)
            /\ Allocated(r) =>
                  /\ n >= 1
                  /\ run[r].tries[n].free
                  /\ run[r].output_dir = run[r].tries[n].name
                  /\ run[r].output_dir \in DOMAIN dirs
                  /\ dirs[run[r].output_dir] = r
            /\ \A d \in DOMAIN dirs : dirs[d] = r => (Allocated(r) /\ d = run[r].output_dir)

\* a call returned base_name_v3 after finding an older directory and the
\* directory of a concurrent call in its way
C16_Witness ==
    \E r1, r2 \in Runs :
        /\ r1 # r2
        /\ Allocated(r1)
        /\ Len(run[r1].tries) = 3
        /\ dirs[run[r1].tries[1].name] = 0
        /\ dirs[run[r1].tries[2].name] = r2

(***************************************************************************)
(* C17: in the spreadsheet _generate_excel_from_template saved, row        *)
(* SMS_MT_ROW (53) was written iff plan.sms_mt_rate > 0; with a rate of 0  *)
(* every cell of that row has the value and the fill of the template; the  *)
(* partner cell C2 and row SMS_MO_ROW (35) were written for every plan     *)
(* that passed the filename checks.                                        *)
(***************************************************************************)
RowOf(row_idx) == {c \in Cells : c[2] = row_idx}

\* the row holds the currency, the discount flag and the rate of the plan
RowHolds(ws, row_idx, rate) ==
    /\ ws[<<"H", row_idx>>].value = Str(s_plan.currency)
    /\ ws[<<"I", row_idx>>].value = Num(IF s_plan.is_discount THEN 1 ELSE 0)
    /\ ws[<<"J", row_idx>>].value = Num(rate)
    /\ ws[<<"J", row_idx>>].fill = Highlight

C17_MTRowOnlyWithRate ==
    /\ s_pc = "done" =>
          /\ (RowOf(53) \cap (s_written \cup s_filled) # {}) <=> (s_plan.sms_mt_rate > 0)
          /\ s_plan.sms_mt_rate = 0 =>
                \A c \in RowOf(53) : s_dest[c] = s_template[c]
          /\ s_plan.sms_mt_rate > 0 => RowHolds(s_dest, 53, s_plan.sms_mt_rate)
          /\ <<"C", 2>> \in s_written
          /\ s_dest[<<"C", 2>>].value = Str(s_plan.partner_tadig)
          /\ {<<"H", 35>>, <<"I", 35>>, <<"J", 35>>} \subseteq s_written
          /\ RowHolds(s_dest, 35, s_plan.sms_mo_rate)
    /\ s_pc = "rejected" => (s_written = {} /\ s_filled = {} /\ s_dest = NoSheet)

\* a plan without an SMS-MT rate was saved over a template whose row 53 holds
\* values that differ from what the row would have been given
C17_Witness ==
    /\ s_pc = "done"
    /\ s_plan.sms_mt_rate = 0
    /\ s_template[<<"H", 53>>].value = Str(Old)
    /\ s_dest[<<"H", 53>>].value = Str(Old)
    /\ s_dest[<<"H", 35>>].value = Str(s_plan.currency)

(***************************************************************************)
(* C18: _generate_excel_from_template never changes the template file; the *)
(* spreadsheet it saved has the values of the template in every cell but   *)
(* C2 and columns H, I, J, L, P, Q, R of the SMS rows it wrote; in a       *)
(* written row the charging-interval cell (column K) keeps the value of    *)
(* the template and has the highlight fill.                                *)
(***************************************************************************)
\* the SMS rows the call writes for its plan
WrittenRows == {35} \cup (IF s_plan.sms_mt_rate > 0 THEN {53} ELSE {})

ValueColumns == {"H", "I", "J", "L", "P", "Q", "R"}

C18_SavedSheetFrame ==
    s_pc = "done" =>
        /\ \A c \in Cells :
              s_dest[c].value # s_template[c].value =>
                  \/ c = <<"C", 2>>
                  \/ (c[1] \in ValueColumns /\ c[2] \in WrittenRows)
        /\ \A c \in Cells :
              s_dest[c].fill # s_template[c].fill =>
                  (c[1] \in {"J", "K"} /\ c[2] \in WrittenRows)
        /\ \A row_idx \in WrittenRows :
              /\ s_dest[<<"K", row_idx>>].value = s_template[<<"K", row_idx>>].value
              /\ s_dest[<<"K", row_idx>>].fill = Highlight
              /\ <<"K", row_idx>> \notin s_written
              /\ <<"K", row_idx>> \in s_filled

C18_TemplateNeverModified ==
    /\ [][s_template' = s_template]_vars
    /\ [](s_pc # "idle" => s_template \in SheetTemplates)
    /\ []C18_SavedSheetFrame

\* both SMS rows were written over a template with a value and no fill in K53
C18_Witness ==
    /\ s_pc = "done"
    /\ s_plan.sms_mt_rate > 0
    /\ s_template[<<"K", 53>>] = [value |-> Str(Old), fill |-> "none"]
    /\ s_dest[<<"K", 53>>] = [value |-> Str(Old), fill |-> Highlight]
    /\ s_dest[<<"M", 53>>] = s_template[<<"M", 53>>]
    /\ s_dest[<<"R", 53>>].value = NoneValue

(***************************************************************************)
(* C19: _truncate_inputs returns one entry per input standard, with the    *)
(* same names in the same order; each returned text is a prefix of its     *)
(* normalized input, at least min(len(normalized input), 5,000) characters *)
(* long, however many standards there are.                                 *)
(***************************************************************************)
\* `short` is the first TextLen(short) characters of `long`
IsPrefix(short, long) == short = Slice(long, TextLen(short))

C19_NoStandardDropped ==
    t_called =>
        /\ Len(t_out.standards) = Len(t_standards)
        /\ \A i \in 1..Len(t_standards) :
              LET normalized == normalize_text(t_standards[i].text)
                  returned == t_out.standards[i].text
              IN  /\ t_out.standards[i].name = t_standards[i].name
                  /\ IsPrefix(returned, normalized)
                  /\ TextLen(returned) <= TextLen(normalized)
                  /\ TextLen(returned) >= Min(TextLen(normalized), MIN_STANDARD_BUDGET)

\* so many standards that an equal share of the budget is under 5,000: a
\* standard of 60,000 characters came back with exactly 5,000
C19_Witness ==
    /\ t_called
    /\ t_standards # <<>>
    /\ (MAX_TOTAL_CHARS - TextLen(t_out.agreement_text)) \div Len(t_standards)
           < MIN_STANDARD_BUDGET
    /\ \E i \in 1..Len(t_standards) :
          /\ TextLen(normalize_text(t_standards[i].text)) = 60000
          /\ TextLen(t_out.standards[i].text) = MIN_STANDARD_BUDGET

(***************************************************************************)
(* C20: in the report of _truncate_inputs the flag of a standard's name is *)
(* true iff the returned text of that standard is shorter than its         *)
(* normalized input, and the agreement flag is true iff the returned       *)
(* agreement is shorter than the normalized agreement; the agreement is    *)
(* cut by the per-file cap only, never by the total-budget phase.          *)
(***************************************************************************)
Shortened(returned, input) == TextLen(returned) < TextLen(normalize_text(input))

C20_FlagsTellWhatWasCut ==
    t_called =>
        /\ t_out.meta.truncated.agreement = Shortened(t_out.agreement_text, t_agreement)
        /\ t_out.agreement_text = PerFileCapped(t_agreement)
        /\ t_out.meta.truncated.agreement = CutByCap(t_agreement)
        /\ DOMAIN t_out.meta.truncated.standards =
               {t_standards[i].name : i \in 1..Len(t_standards)}
        /\ \A i \in 1..Len(t_standards) :
              t_out.meta.truncated.standards[t_standards[i].name]
                  = Shortened(t_out.standards[i].text, t_standards[i].text)

\* the total-budget phase ran: a standard under the per-file cap was cut by it,
\* a short one was not, and the agreement was cut by the per-file cap
C20_Witness ==
    /\ t_called
    /\ ~CapSuffices
    /\ CutByCap(t_agreement)
    /\ \E i, j \in 1..Len(t_standards) :
          /\ ~CutByCap(t_standards[i].text)
          /\ t_out.meta.truncated.standards[t_standards[i].name]
          /\ ~t_out.meta.truncated.standards[t_standards[j].name]

(***************************************************************************)
(* C21: two plans of one LoaderOutput under the same valid filename do not *)
(* make the run fail.  The spreadsheet of the later plan replaces that of  *)
(* the earlier one at the same path, the manifest lists the path once per  *)
(* plan, and summary.excel_files_count is the number of plans, which is    *)
(* more than the number of spreadsheets in the run directory.              *)
(***************************************************************************)
PlansOf(r) == run[r].loader.excel_outputs

\* an earlier plan of the run carries the filename of plan j
Collides(r, j) == \E i \in 1..(j - 1) : PlansOf(r)[i].filename = PlansOf(r)[j].filename

HasCollision(r) == \E j \in 1..Len(PlansOf(r)) : Collides(r, j)

\* the spreadsheets in the directory of run r
SheetsOf(r) ==
    {f \in DOMAIN files : f[1] = run[r].output_dir /\ files[f].kind \in {"copy", "xlsx"}}

\* the last plan of the first n that carries the given filename
LastUnder(r, n, filename) ==
    LET last == CHOOSE j \in 1..n :
                    /\ PlansOf(r)[j].filename = filename
                    /\ \A k \in (j + 1)..n : PlansOf(r)[k].filename # filename
    IN  PlansOf(r)[last]

C21_Overwritten ==
    \A r \in Runs :
        /\ (run[r].pc \in {"plan_check", "plan_copy", "plan_save", "write_meta", "return", "done"}
              /\ HasCollision(r))
           => \A k \in 1..Len(run[r].loader_excel_paths) :
                 LET dest == run[r].loader_excel_paths[k]
                 IN  /\ dest = <<run[r].output_dir, PlansOf(r)[k].filename>>
                     /\ dest \in DOMAIN files
                     /\ (run[r].pc # "plan_save" \/ dest[2] # CurrentPlan(r).filename)
                        => files[dest].body.plan =
                              {LastUnder(r, Len(run[r].loader_excel_paths), dest[2])}
        /\ (run[r].pc = "done" /\ HasCollision(r))
           => /\ Len(run[r].response.loader_excel_paths) = Len(PlansOf(r))
              /\ \E i, j \in 1..Len(PlansOf(r)) :
                    /\ i < j
                    /\ run[r].response.loader_excel_paths[i]
                           = run[r].response.loader_excel_paths[j]
              /\ run[r].response.excel_files_count = Len(PlansOf(r))
              /\ Cardinality(SheetsOf(r)) < run[r].response.excel_files_count
              /\ files[<<run[r].output_dir, MetaJson>>].body.loader_excel
                     = run[r].response.loader_excel_paths

\* a plan whose filename is valid and already used by an earlier plan is
\* checked, copied and saved without a fault
C21_CollisionIsNoFault ==
    \A r \in Runs :
        (/\ run[r].pc \in {"plan_check", "plan_copy", "plan_save"}
         /\ Collides(r, run[r].plan_i)
         /\ FilenameCheck(CurrentPlan(r)) = 0)
        => run'[r].pc # "failed"

C21_SameFilenameOverwrites == []C21_Overwritten /\ [][C21_CollisionIsNoFault]_vars

\* a finished run whose two plans shared one filename: one spreadsheet on disk,
\* holding the second plan, two paths in the manifest
C21_Witness ==
    \E r \in Runs :
        /\ run[r].pc = "done"
        /\ PlansOf(r) = <<PlanTO, PlanTOAgain>>
        /\ Cardinality(SheetsOf(r)) = 1
        /\ run[r].response.excel_files_count = 2
        /\ files[<<run[r].output_dir, PlanTO.filename>>].body.plan = {PlanTOAgain}

(***************************************************************************)
(* C23: create_versioned_output_dir ends after at most 9,999 exclusive     *)
(* mkdir calls, one per candidate base_name, base_name_v2 ..               *)
(* base_name_v9999.  It raises RuntimeError only after all 9,999 were      *)
(* tried and each existed when it was tried, and a call that raised        *)
(* created no directory.                                                   *)
(***************************************************************************)
AllocationFailed(r) == run[r].pc = "failed" /\ run[r].error.cause = "RuntimeError"

C23_Attempts ==
    \A r \in Runs :
        LET base_name == safe_agreement_base_name(run[r].agreement_path)
            n == Len(run[r].tries)
        IN  /\ n <= 9999
            /\ n >= 1 => run[r].tries[n].name = VersionedName(base_name, n)
            /\ run[r].pc = "mkdir" =>
                  /\ n = run[r].i - 1
                  /\ n < 9999
                  /\ n >= 1 => ~run[r].tries[n].free
            /\ run[r].pc \notin {"idle", "mkdir"} =>
                  \A j \in 1..n : run[r].tries[j].name = VersionedName(base_name, j)
            /\ AllocationFailed(r) =>
                  /\ n = 9999
                  /\ \A j \in 1..n : ~run[r].tries[j].free
                  /\ ~Allocated(r)
                  /\ \A d \in DOMAIN dirs : dirs[d] # r
            /\ (run[r].pc = "failed" /\ n >= 1 /\ ~run[r].tries[n].free) => n = 9999

\* every step inside the loop is one more mkdir added to those made before,
\* and the loop is not entered again
C23_OneMoreTry ==
    \A r \in Runs :
        /\ (run[r].pc = "mkdir" /\ run'[r] # run[r])
              => /\ Len(run'[r].tries) = Len(run[r].tries) + 1
                 /\ SubSeq(run'[r].tries, 1, Len(run[r].tries)) = run[r].tries
        /\ run[r].pc # "mkdir" => (run'[r].pc # "mkdir" /\ run'[r].tries = run[r].tries)

C23_BoundedAllocation == []C23_Attempts /\ [][C23_OneMoreTry]_vars

\* one call tried all 9,999 candidates and raised; another call took the last
\* free candidate base_name_v9999 in its 9,999th attempt
C23_Witness ==
    \E r \in Runs :
        /\ AllocationFailed(r)
        /\ Len(run[r].tries) = 9999
        /\ \E q \in Runs : q # r /\ Allocated(q) /\ Len(run[q].tries) = 9999
                             /\ dirs[run[r].tries[9999].name] = q

(***************************************************************************)
(* C24: meta.json is the last file a run writes.  Whenever meta.json is in *)
(* the directory of a run, loader.json and the saved spreadsheet of every  *)
(* plan of excel_outputs are there too; the directory of a failed run      *)
(* holds no meta.json; and a run returns its manifest only with meta.json  *)
(* written.                                                                *)
(***************************************************************************)
HasMeta(r) == Allocated(r) /\ <<run[r].output_dir, MetaJson>> \in DOMAIN files

C24_JournalLast ==
    \A r \in Runs :
        /\ HasMeta(r) =>
              /\ run[r].pc \in {"return", "done"}
              /\ <<run[r].output_dir, LoaderJson>> \in DOMAIN files
              /\ files[<<run[r].output_dir, LoaderJson>>].kind = "loader"
              /\ Len(run[r].loader_excel_paths) = Len(run[r].loader.excel_outputs)
              /\ \A k \in 1..Len(run[r].loader.excel_outputs) :
                    LET dest == <<run[r].output_dir, run[r].loader.excel_outputs[k].filename>>
                    IN  /\ dest \in DOMAIN files
                        /\ files[dest].kind = "xlsx"
        /\ run[r].pc = "failed" =>
              /\ ~HasMeta(r)
              /\ \A f \in DOMAIN files : dirs[f[1]] = r => f[2] # MetaJson
        /\ (run[r].pc = "done" \/ run[r].response # NoResponse) => HasMeta(r)

\* from the moment meta.json is written the files of the run stay as they are
C24_NothingAfterJournal ==
    \A r \in Runs : HasMeta(r) => (files' = files /\ dirs' = dirs)

C24_JournalWrittenLast == []C24_JournalLast /\ [][C24_NothingAfterJournal]_vars

\* meta.json written after loader.json and the spreadsheets of two plans
C24_Witness ==
    \E r \in Runs :
        /\ HasMeta(r)
        /\ run[r].pc = "return"
        /\ Len(run[r].loader.excel_outputs) = 2
        /\ Cardinality({f \in DOMAIN files : f[1] = run[r].output_dir}) = 4

(***************************************************************************)
(* C25: when generate_loader_artifacts raises the fault for the missing    *)
(* template (no standard document was supplied), it has allocated no       *)
(* output directory and written no loader.json.                            *)
(***************************************************************************)
MissingTemplateFault(r) ==
    /\ run[r].pc = "failed"
    /\ run[r].error.status = 400
    /\ run[r].error.message = "No standard template available"

RECURSIVE HoldsFrom(_, _)
\* the offset up to which the chunks of data continue the bytes from `offset`
\* without a gap, or -1
HoldsFrom(data, offset) ==
    IF data = <<>> THEN offset
    ELSE IF Head(data)[1] = offset /\ Head(data)[2] > 0
    THEN HoldsFrom(Tail(data), offset + Head(data)[2])
    ELSE -1

\* the file holds exactly the bytes 0 .. total - 1
HoldsUpload(file, total) == file.exists /\ HoldsFrom(file.data, 0) = total

UploadValid == u_call.named /\ ExtensionAllowed(u_call.suffix)

C26_NoPartialFile ==
    /\ u_pc = "failed" =>
          /\ ~u_dest.exists
          /\ u_error \in {400, 413, 500}
          /\ u_error = 413 => u_call.size > u_call.max_bytes
          /\ u_error = 400 => (~UploadValid \/ u_call.size = 0)
    /\ u_pc = "done" =>
          /\ HoldsUpload(u_dest, u_call.size)
          /\ u_size = u_call.size
          /\ 1 <= u_call.size
          /\ u_call.size <= u_call.max_bytes
    /\ ~UploadValid => ~u_dest.exists

\* an upload of exactly max_bytes was stored, in fifteen chunks
C26_Witness ==
    /\ u_pc = "done"
    /\ u_call.size = u_call.max_bytes
    /\ Len(u_dest.data) = 15
    /\ HoldsUpload(u_dest, MAX_UPLOAD_BYTES)

(***************************************************************************)
(* C22: the usage the external model reports has no influence on what a    *)
(* call does.  Two calls on the same documents that get the same raw       *)
(* outputs (and the same exceptions) go through the same states, usage and *)
(* usage2 aside: the same statements, the same end (the same response or   *)
(* the same fault), the same directories and the same files, where         *)
(* meta.json may differ in openai_usage and in nothing else.               *)
(***************************************************************************)
\* a recorded state without the usage values
WithoutUsage(snap) ==
    [snap EXCEPT
        !.run.usage = None,
        !.run.usage2 = None,
        !.files = [f \in DOMAIN snap.files |->
                       IF snap.files[f].kind = "meta"
                       THEN [snap.files[f] EXCEPT !.body.openai_usage = None]
                       ELSE snap.files[f]]]

PairEnded == w_pass = 2 /\ Recorded /\ run[1].pc \in {"done", "failed"}

C22_UsageDoesNotSteer ==
    w_pass = 2 =>
        /\ Len(w_second) <= Len(w_first)
        /\ \A k \in 1..Len(w_second) :
              WithoutUsage(w_second[k]) = WithoutUsage(w_first[k])
        /\ PairEnded =>
              /\ Len(w_second) = Len(w_first)
              /\ run[1].response = w_first[Len(w_first)].run.response
              /\ run[1].error = w_first[Len(w_first)].run.error

\* both calls went through the repair and wrote their files; the first was
\* told no usage at all, the second a usage for each of its two invocations
C22_Witness ==
    /\ PairEnded
    /\ run[1].pc = "done"
    /\ run[1].calls = 2
    /\ w_first[Len(w_first)].run.usage = None
    /\ DOMAIN run[1].usage.entries = {"first_call", "retry_call"}
    /\ files[<<run[1].output_dir, MetaJson>>].body.openai_usage = run[1].usage
    /\ w_first[Len(w_first)].files[<<run[1].output_dir, MetaJson>>].body.openai_usage = None

=============================================================================
